---- MODULE Spec2Model ----
(***************************************************************************)
(* DarkPause enforcement and persistence: the hosts block manager          *)
(* (src/core/hosts_manager.py) and the firewall manager                    *)
(* (src/core/firewall_manager.py) as state machines.                       *)
(*                                                                         *)
(* A text is a sequence of tokens.  NL is the newline character; every     *)
(* other token is a newline-free piece of text (a marker, a redirect       *)
(* entry, a comment, some unrelated text).  A line is a sequence of such   *)
(* pieces, so that "marker in line" is a membership test and a line may    *)
(* hold a marker next to other text.  The byte-order mark that             *)
(* utf-8-sig strips on read and adds on write is outside the text.         *)
(***************************************************************************)
EXTENDS Integers, Sequences, FiniteSets, TLC

(***************************************************************************)
(* Bounds of the model.                                                    *)
(***************************************************************************)
\* Lines of the hosts file in an initial state of Spec.
MaxLines == 2
\* Lines of the hosts file in an initial state of SpecRemove.
MaxRemoveLines == 3
\* Domains kept of each configured domain list.
MaxDomains == 2
\* Calls of the hosts manager in a run.
MaxCalls == 2
\* Calls of _write_hosts_file and _save_data in a run of SpecWrite.
MaxWrites == 2
\* Threads calling the hosts manager at once, one call each.
MaxThreads == 2
\* Firewall rules of one name the rule table holds at most.
MaxRules == 2
\* Refresh threads of the allowlist alive at once.
MaxRefreshThreads == 1
\* Calendar days the clock runs through.
MaxDays == 2
\* Seconds of usage a ledger holds at most.
MaxUsedSeconds == 800
\* Sessions a ledger counts at most.
MaxSessions == 1
\* Threads calling the usage tracker at once, one call each.
MaxUsageThreads == 2
\* The last second of the clock, and the most ids in a state file.
MaxClock == 660
MaxPlatformIds == 2
\* the stored entries of permanent_blocks.json
MaxEntries == 2
\* Tasks the control panel has queued at once.
MaxTasks == 2
\* Timer threads of one platform alive at once.
MaxTimerThreads == 2

Min(a, b) == IF a < b THEN a ELSE b
Max(a, b) == IF a > b THEN a ELSE b

(***************************************************************************)
(* Configuration (src/core/config.py).                                     *)
(***************************************************************************)
REDIRECT_IP == "127.0.0.1"

\* The first MaxDomains entries of a configured list.
Configured(list) == SubSeq(list, 1, Min(MaxDomains, Len(list)))

INSTAGRAM ==
    [id |-> "instagram", display_name |-> "Instagram", marker_tag |-> "INSTAGRAM",
     daily_limit_minutes |-> 10,
     domains |-> Configured(<<"instagram.com", "www.instagram.com",
         "api.instagram.com", "i.instagram.com", "graph.instagram.com",
         "l.instagram.com", "static.cdninstagram.com",
         "scontent.cdninstagram.com", "edge-chat.instagram.com",
         "scontent-mad1-1.cdninstagram.com",
         "scontent-mad2-1.cdninstagram.com">>)]

YOUTUBE ==
    [id |-> "youtube", display_name |-> "YouTube", marker_tag |-> "YOUTUBE",
     daily_limit_minutes |-> 60,
     domains |-> Configured(<<"youtube.com", "www.youtube.com", "m.youtube.com",
         "youtu.be", "youtube-nocookie.com", "www.youtube-nocookie.com",
         "youtubei.googleapis.com", "yt3.ggpht.com",
         "yt3.googleusercontent.com", "i.ytimg.com", "s.ytimg.com">>)]

ALL_PLATFORMS == {INSTAGRAM, YOUTUBE}

RESET_HOUR == 4

PERMANENT_BLOCK_TAG == "PERMANENT"

\* The list goes on (config.py lines 190 to 228); Configured keeps its head.
PERMANENT_BLOCK_DOMAINS ==
    Configured(<<"instagram.com", "www.instagram.com", "api.instagram.com",
        "i.instagram.com", "graph.instagram.com", "l.instagram.com",
        "static.cdninstagram.com", "scontent.cdninstagram.com",
        "edge-chat.instagram.com", "youtube.com", "www.youtube.com",
        "m.youtube.com", "youtu.be", "youtube-nocookie.com",
        "www.youtube-nocookie.com", "youtubei.googleapis.com", "yt3.ggpht.com",
        "yt3.googleusercontent.com", "i.ytimg.com", "s.ytimg.com">>)

(***************************************************************************)
(* Tokens of the hosts text.                                               *)
(***************************************************************************)
NL == [k |-> "nl", v |-> ""]
\* "# >>> DARKPAUSE-<tag>-START <<<"
MarkerStart(tag) == [k |-> "start", v |-> tag]
\* "# >>> DARKPAUSE-<tag>-END <<<"
MarkerEnd(tag) == [k |-> "end", v |-> tag]
\* "<REDIRECT_IP> <domain>"
Redirect(domain) == [k |-> REDIRECT_IP, v |-> domain]
\* "# DarkPause - <name> block" and the other comment lines of a section
Comment(text) == [k |-> "comment", v |-> text]
\* text the manager did not write
Text(t) == [k |-> "text", v |-> t]

marker_start(platform) == MarkerStart(platform.marker_tag)
marker_end(platform) == MarkerEnd(platform.marker_tag)

(***************************************************************************)
(* str.splitlines, "\n".join, str.rstrip("\n") and the "in" test.          *)
(***************************************************************************)
\* The position of the first NL of s, or 0.
FirstNL(s) ==
    IF \E i \in 1..Len(s) : s[i] = NL
    THEN CHOOSE i \in 1..Len(s) : s[i] = NL /\ \A j \in 1..(i - 1) : s[j] # NL
    ELSE 0

RECURSIVE SplitLines(_)
\* A final newline ends the last line and starts no empty one.
SplitLines(s) ==
    IF s = <<>> THEN <<>>
    ELSE LET i == FirstNL(s) IN
         IF i = 0 THEN <<s>>
         ELSE <<SubSeq(s, 1, i - 1)>> \o SplitLines(SubSeq(s, i + 1, Len(s)))

RECURSIVE JoinLines(_)
JoinLines(lines) ==
    IF lines = <<>> THEN <<>>
    ELSE IF Len(lines) = 1 THEN lines[1]
    ELSE lines[1] \o <<NL>> \o JoinLines(Tail(lines))

RECURSIVE RStripNL(_)
RStripNL(s) ==
    IF s # <<>> /\ s[Len(s)] = NL THEN RStripNL(SubSeq(s, 1, Len(s) - 1)) ELSE s

\* marker in line
In(marker, line) == \E i \in 1..Len(line) : line[i] = marker

\* marker in content (the whole text)
InText(marker, content) == \E i \in 1..Len(content) : content[i] = marker

(***************************************************************************)
(* _build_block_section and _remove_existing_block.                        *)
(***************************************************************************)
RedirectLines(domains) == [i \in 1..Len(domains) |-> <<Redirect(domains[i])>>]

SectionLines(platform) ==
    <<<<marker_start(platform)>>, <<Comment(platform.display_name)>>>>
    \o RedirectLines(platform.domains)
    \o <<<<marker_end(platform)>>>>

BuildBlockSection(platform) == JoinLines(SectionLines(platform))

\* The loop's state before the first line.
RemoveInit == [result |-> <<>>, inside_block |-> FALSE, skipped_lines |-> <<>>]

\* One iteration of the loop over content.splitlines().
RemoveStep(st, line, platform) ==
    IF In(marker_start(platform), line)
    THEN [st EXCEPT !.inside_block = TRUE, !.skipped_lines = <<>>]
    ELSE IF st.inside_block /\ In(marker_end(platform), line)
    THEN [st EXCEPT !.inside_block = FALSE]
    ELSE IF st.inside_block
    THEN [st EXCEPT !.skipped_lines = Append(@, line)]
    ELSE [st EXCEPT !.result = Append(@, line)]

RECURSIVE RemoveLoop(_, _, _)
RemoveLoop(lines, st, platform) ==
    IF lines = <<>> THEN st
    ELSE RemoveLoop(Tail(lines), RemoveStep(st, Head(lines), platform), platform)

\* The lines of the result, before the join.
RemoveResultLines(content, platform) ==
    LET st == RemoveLoop(SplitLines(content), RemoveInit, platform) IN
    IF st.inside_block /\ st.skipped_lines # <<>>
    THEN st.result \o st.skipped_lines
    ELSE st.result

RemoveExistingBlock(content, platform) ==
    JoinLines(RemoveResultLines(content, platform))

(***************************************************************************)
(* get_all_permanent_domains and the text block_permanent_domains builds.  *)
(***************************************************************************)
RECURSIVE Flatten(_)
\* all_domains.extend(domains) for every stored entry, in stored order
Flatten(blocks) ==
    IF blocks = <<>> THEN <<>> ELSE Head(blocks).domains \o Flatten(Tail(blocks))

RECURSIVE Unique(_, _)
\* the loop over all_domains with the set seen
Unique(domains, seen) ==
    IF domains = <<>> THEN <<>>
    ELSE IF Head(domains) \in seen THEN Unique(Tail(domains), seen)
    ELSE <<Head(domains)>> \o Unique(Tail(domains), seen \cup {Head(domains)})

\* A merge that keeps every occurrence of a domain.
GetAllPermanentDomainsMerged(blocks) ==
    PERMANENT_BLOCK_DOMAINS \o Flatten(blocks)

\* get_all_permanent_domains() when the stored entries are blocks
GetAllPermanentDomains(blocks) ==
    Unique(PERMANENT_BLOCK_DOMAINS \o Flatten(blocks), {})

PermanentSectionLines(all_domains) ==
    <<<<MarkerStart(PERMANENT_BLOCK_TAG)>>,
      <<Comment("Permanent Blocks (DO NOT EDIT)")>>,
      <<Comment(ToString(Len(all_domains)))>>>>
    \o RedirectLines(all_domains)
    \o <<<<MarkerEnd(PERMANENT_BLOCK_TAG)>>>>

\* One iteration of the loop of block_permanent_domains: st is
\* [result_lines, inside_block].
PermanentStep(st, line) ==
    IF In(MarkerStart(PERMANENT_BLOCK_TAG), line)
    THEN [st EXCEPT !.inside_block = TRUE]
    ELSE IF In(MarkerEnd(PERMANENT_BLOCK_TAG), line)
    THEN [st EXCEPT !.inside_block = FALSE]
    ELSE IF ~st.inside_block
    THEN [st EXCEPT !.result_lines = Append(@, line)]
    ELSE st

RECURSIVE PermanentLoop(_, _)
PermanentLoop(lines, st) ==
    IF lines = <<>> THEN st
    ELSE PermanentLoop(Tail(lines), PermanentStep(st, Head(lines)))

\* new_content of block_permanent_domains
PermanentContent(content, all_domains) ==
    LET st == PermanentLoop(SplitLines(content),
                            [result_lines |-> <<>>, inside_block |-> FALSE])
    IN RStripNL(JoinLines(st.result_lines))
         \o <<NL, NL>> \o JoinLines(PermanentSectionLines(all_domains)) \o <<NL>>

(***************************************************************************)
(* State.                                                                  *)
(***************************************************************************)
VARIABLES
    hosts,        \* the text of the hosts file
    backup,       \* APP_DATA_DIR/hosts.backup: NoFile or its text
    user_blocks,  \* permanent_blocks.json: the stored list of entries
    log,          \* history: the last call of the hosts manager, or NoCall
    calls,        \* history: the number of calls made
    limit,        \* the number of calls a run makes at most
    usage_file,   \* APP_DATA_DIR/usage_<id>.json of each platform: NoFile or text
    tmp,          \* the temporary file of the write in progress: NoFile or text
    w,            \* the write in progress, step by step
    hosts_lock,   \* _hosts_lock: the thread inside "with _hosts_lock", 0 when free
    th,           \* the call of each thread, step by step
    rules,        \* Windows Firewall: the number of rules of each name
    flag,         \* APP_DATA_DIR/allowlist_active.flag exists
    allowlist_active,   \* _allowlist_active
    allowlist_thread,   \* _allowlist_thread: a refresh thread, 0 for None
    stop_event,   \* _allowlist_stop_event is set
    rt,           \* the position of each refresh thread
    ui,           \* the firewall call of the main thread, step by step
    now,          \* datetime.now(): the local calendar day and hour
    ulog,         \* history: the last call of the usage tracker
    platform_locks,   \* _platform_locks: the thread holding each, 0 when free
    ut,           \* the usage-tracker call of each thread, step by step
    clock,        \* datetime.now(): the seconds since 04:00:00 of day 1
    process,      \* the parts of the process that have started; {} when down
    blackout_state,    \* APP_DATA_DIR/blackout_state.json: NoFile or text
    web_block_state,   \* APP_DATA_DIR/web_block_state.json: NoFile or text
    blackout,     \* the ScreenBlackout of the process
    section,      \* the WebBlockSection of the process
    sessions,     \* the PlatformSession of each platform in the tray
    slog,         \* history: the last session operation
    scheduler,    \* the ScheduleManager and its checking thread, step by step
    tasks,        \* ControlPanel._scheduled_tasks, and what its monitor did
    timers        \* time.monotonic() and the timer threads of each platform

hostsVars == <<hosts, backup, user_blocks, log, calls, limit>>
writerVars == <<usage_file, tmp, w>>
lockVars == <<hosts_lock, th>>
fwVars ==
    <<rules, flag, allowlist_active, allowlist_thread, stop_event, rt, ui>>
usageVars == <<now, ulog, platform_locks, ut>>
sessionVars ==
    <<clock, process, blackout_state, web_block_state, blackout, section,
      sessions, slog>>
taskVars == <<scheduler, tasks, timers>>
vars ==
    <<hosts, backup, user_blocks, log, calls, limit, usage_file, tmp, w,
      hosts_lock, th, rules, flag, allowlist_active, allowlist_thread,
      stop_event, rt, ui, now, ulog, platform_locks, ut, clock, process,
      blackout_state, web_block_state, blackout, section, sessions, slog,
      scheduler, tasks, timers>>

NoFile == <<[k |-> "nofile", v |-> ""]>>
NoCall ==
    [op |-> "none", tag |-> "", ret |-> FALSE, wrote |-> FALSE, before |-> <<>>]

PlatformIds == { platform.id : platform \in ALL_PLATFORMS }

\* No write in progress; n counts the writes begun.
NoWrite ==
    [pc |-> "idle", fn |-> "", id |-> "", content |-> <<>>, old |-> <<>>,
     path |-> "", n |-> 0]

WriterIdle ==
    /\ usage_file = [id \in PlatformIds |-> NoFile]
    /\ tmp = NoFile
    /\ w = NoWrite

Threads == 1..MaxThreads

\* A thread that has made no call.
NoThreadCall ==
    [pc |-> "idle", op |-> "none", tag |-> "", content |-> <<>>,
     ret |-> FALSE, wrote |-> FALSE]

LockIdle ==
    /\ hosts_lock = 0
    /\ th = [t \in Threads |-> NoThreadCall]

_DNS_RULE_NAME == "DarkPause-DNS-Lock"
_DOT_RULE_NAME == "DarkPause-DoT-Lock"
_ALLOWLIST_BLOCK_ALL_RULE == "DarkPause-Allowlist-BlockAll"
_ALLOWLIST_ALLOW_PREFIX == "DarkPause-Allowlist-Allow"
AllowRule(suffix) == _ALLOWLIST_ALLOW_PREFIX \o "-" \o suffix

DnsRules == {_DNS_RULE_NAME, _DOT_RULE_NAME}
AllowlistRules == {_ALLOWLIST_BLOCK_ALL_RULE, AllowRule("0"), AllowRule("local")}
RuleNames == DnsRules \cup AllowlistRules

NoRules == [name \in RuleNames |-> 0]

RefreshThreads == 1..MaxRefreshThreads

\* The main thread is in no firewall call.  fn is the call last made, eff
\* whether every netsh command of it was carried out, ret its return value,
\* blocks the block_alternative_dns calls returned in a row, carried those of
\* them in a row with eff, locked whether both DNS-lock rules stood at an
\* earlier return with no unblock_alternative_dns or cleanup_all_rules since.
NoUi ==
    [pc |-> "idle", i |-> 0, fn |-> "none", eff |-> TRUE, ret |-> FALSE,
     blocks |-> 0, carried |-> 0, locked |-> FALSE]

\* A refresh thread that does not run.
Dead == [pc |-> "dead", i |-> 0]

FwIdle ==
    /\ rules = NoRules
    /\ flag = FALSE
    /\ allowlist_active = FALSE
    /\ allowlist_thread = 0
    /\ stop_event = FALSE
    /\ rt = [t \in RefreshThreads |-> Dead]
    /\ ui = NoUi

UsageThreads == 1..MaxUsageThreads

\* The clock at the start: the first day, past the reset hour.
StartClock == [day |-> 1, hour |-> RESET_HOUR]

\* No call of the usage tracker made yet.
NoUsageCall ==
    [op |-> "none", id |-> "", io |-> "ok", raised |-> FALSE, ret |-> 0]

\* A thread that has made no call of the usage tracker.
NoUsageThread ==
    [pc |-> "idle", op |-> "none", id |-> "", seconds |-> 0,
     data |-> <<>>, raised |-> FALSE, saved |-> FALSE]

UsageIdle ==
    /\ now = StartClock
    /\ ulog = NoUsageCall
    /\ platform_locks = [id \in PlatformIds |-> 0]
    /\ ut = [t \in UsageThreads |-> NoUsageThread]

\* No session: a process just started with no state file, at 04:00:00.
NoBlackout ==
    [is_active |-> FALSE, is_locked |-> FALSE, end_time |-> -1, overlays |-> 0,
     timer_id |-> FALSE]
NoSection ==
    [session_active |-> FALSE, session_locked |-> FALSE, session_end |-> -1,
     blocked_platforms |-> <<>>, timer_id |-> FALSE]
NoPlatformSession == [running |-> FALSE, paused |-> FALSE]
\* found: the state file a starting process read.
NoSessionCall ==
    [op |-> "none", ret |-> <<>>, raised |-> FALSE, found |-> NoFile]

SessionIdle ==
    /\ clock = 0
    /\ process = {"blackout", "section"}
    /\ blackout_state = NoFile
    /\ web_block_state = NoFile
    /\ blackout = NoBlackout
    /\ section = NoSection
    /\ sessions = [id \in PlatformIds |-> NoPlatformSession]
    /\ slog = NoSessionCall

\* A ScheduleManager built with no schedules.json: nothing to check, nothing
\* triggered, its thread not started.  fired is history: the schedules
\* triggered so far, each with the day of the trigger.
NoScheduler ==
    [schedules |-> <<>>, triggered_today |-> {}, last_check_date |-> "",
     pc |-> "idle", fired |-> {}]

\* A control panel with no task queued.  fired is history: the tasks the last
\* monitor tick triggered.
NoTasks == [scheduled_tasks |-> <<>>, fired |-> <<>>]

\* No timer thread yet: time.monotonic() at 0, the stop event of each
\* PlatformSession clear.  counted is history: the instant up to which the
\* timer threads have counted the platform's usage.
NoTimers ==
    [mono |-> 0,
     stop_event |-> [id \in PlatformIds |-> FALSE],
     threads |-> [id \in PlatformIds |-> <<>>],
     counted |-> [id \in PlatformIds |-> 0]]

TaskIdle == scheduler = NoScheduler /\ tasks = NoTasks /\ timers = NoTimers

Idle == WriterIdle /\ LockIdle /\ FwIdle /\ UsageIdle /\ SessionIdle /\ TaskIdle

(***************************************************************************)
(* _ensure_hosts_backup and _write_hosts_file, a call as one step.         *)
(* copied: whether shutil.copy2 succeeds (its failure is logged only).     *)
(* written: "atomic" (mkstemp .. os.replace), "fallback" (write_text after *)
(* the atomic path raised) or "failed" (both raised; logged only).         *)
(***************************************************************************)
EnsureHostsBackup(bk, current, copied) ==
    IF bk = NoFile /\ copied THEN current ELSE bk

\* The text of the hosts file after _write_hosts_file(content).
WriteHostsFile(current, content, written) ==
    IF written \in {"atomic", "fallback"} THEN content ELSE current

(***************************************************************************)
(* The public operations of the hosts manager, each under _hosts_lock.     *)
(* An outcome says how the call's I/O went: read is "ok" or the exception  *)
(* _read_hosts_file raises, and then nothing is copied or written.         *)
(***************************************************************************)
Outcomes ==
    { [read |-> r, copied |-> FALSE, written |-> "failed"] :
        r \in {"PermissionError", "OSError"} }
    \cup [read : {"ok"},
          copied : IF backup = NoFile THEN BOOLEAN ELSE {FALSE},
          written : {"atomic", "fallback", "failed"}]

\* A block_platform that appends the section without removing the old one.
BlockContentAppendOnly(content, platform) ==
    RStripNL(content) \o <<NL, NL>> \o BuildBlockSection(platform) \o <<NL>>

\* new_content of block_platform
BlockContent(content, platform) ==
    RStripNL(RemoveExistingBlock(content, platform))
        \o <<NL, NL>> \o BuildBlockSection(platform) \o <<NL>>

\* An unblock_platform that also strips the newlines the removal leaves.
UnblockContentStripped(content, platform) ==
    RStripNL(RemoveExistingBlock(content, platform))

\* clean_content of unblock_platform
UnblockContent(content, platform) == RemoveExistingBlock(content, platform)

\* What a call returns: both exception handlers return False, and
\* _write_hosts_file and _flush_dns raise nothing.
Returned(o) == o.read = "ok"

Logged(op, tag, o) ==
    [op |-> op, tag |-> tag, ret |-> Returned(o),
     wrote |-> (o.read = "ok" /\ o.written # "failed"), before |-> hosts]

\* One call that reads the file, computes content from it and writes it.
Mutate(op, tag, content, o) ==
    /\ calls < limit
    /\ IF o.read = "ok"
       THEN /\ backup' = EnsureHostsBackup(backup, hosts, o.copied)
            /\ hosts' = WriteHostsFile(hosts, content, o.written)
       ELSE UNCHANGED <<hosts, backup>>
    /\ log' = Logged(op, tag, o)
    /\ calls' = calls + 1
    /\ UNCHANGED <<user_blocks, limit, writerVars, lockVars, fwVars, usageVars, sessionVars, taskVars>>

block_platform(platform) ==
    \E o \in Outcomes :
        Mutate("block", platform.marker_tag, BlockContent(hosts, platform), o)

unblock_platform(platform) ==
    \E o \in Outcomes :
        Mutate("unblock", platform.marker_tag, UnblockContent(hosts, platform), o)

\* The merged list holds the built-in domains, so it is never empty.
block_permanent_domains ==
    \E o \in Outcomes :
        Mutate("permanent", PERMANENT_BLOCK_TAG,
               PermanentContent(hosts, GetAllPermanentDomains(user_blocks)), o)

(***************************************************************************)
(* Initial states: any text of up to n lines, with or without a final      *)
(* newline; no backup and no stored entries yet.                           *)
(***************************************************************************)
InitLines ==
    { <<>>, <<Text("a")>>, <<Redirect("instagram.com")>>,
      <<marker_start(INSTAGRAM)>>, <<marker_end(INSTAGRAM)>> }

InitTexts(n) ==
    { JoinLines(ls) \o tl :
        ls \in UNION { [1..k -> InitLines] : k \in 0..n },
        tl \in {<<>>, <<NL>>} }

InitHosts(n, runs) ==
    /\ hosts \in InitTexts(n)
    /\ backup = NoFile
    /\ user_blocks = <<>>
    /\ log = NoCall
    /\ calls = 0
    /\ limit = runs

Init == InitHosts(MaxLines, MaxCalls) /\ Idle

Next ==
    \/ \E platform \in ALL_PLATFORMS : block_platform(platform)
    \/ \E platform \in ALL_PLATFORMS : unblock_platform(platform)
    \/ block_permanent_domains

Spec == Init /\ [][Next]_vars

\* One call on a text of up to MaxRemoveLines lines.
InitRemove == InitHosts(MaxRemoveLines, 1) /\ Idle

SpecRemove == InitRemove /\ [][Next]_vars

(***************************************************************************)
(* _write_hosts_file and _save_data step by step, with the process killed  *)
(* at any step.  Both create a temporary file beside the target, write,    *)
(* flush and fsync it and os.replace it over the target; when a step       *)
(* raises they write the target directly.  w.path is "atomic" until a step *)
(* has raised.                                                             *)
(***************************************************************************)
\* json.dumps(data, indent=2) of a UsageData
UsageKeys == <<"date", "used_seconds", "sessions">>

JsonDumps(data) ==
    LET keys == SelectSeq(UsageKeys, LAMBDA key : key \in DOMAIN data)
        member(key) ==
            [k |-> key, v |-> IF key = "date" THEN data[key] ELSE ToString(data[key])]
    IN << [k |-> "{", v |-> ""] >>
       \o [i \in 1..Len(keys) |-> member(keys[i])]
       \o << [k |-> "}", v |-> ""] >>

Prefixes(s) == { SubSeq(s, 1, k) : k \in 0..Len(s) }
ProperPrefixes(s) == { SubSeq(s, 1, k) : k \in 0..(Len(s) - 1) }

\* The target of the write in progress.
Target == IF w.fn = "hosts" THEN hosts ELSE usage_file[w.id]

SetTarget(text) ==
    IF w.fn = "hosts"
    THEN hosts' = text /\ UNCHANGED usage_file
    ELSE usage_file' = [usage_file EXCEPT ![w.id] = text] /\ UNCHANGED hosts

\* A write through a handle opened on the target itself.
FdWriteInPlace(files, data) == [files EXCEPT !.target = data]

\* f.write and f.flush on the handle of mkstemp's file: data is what the
\* temporary file holds afterwards.
FdWrite(files, data) == [files EXCEPT !.tmp = data]

\* os.replace(tmp_path, target)
Replace(files) == [target |-> files.tmp, tmp |-> NoFile]

Store(files) == SetTarget(files.target) /\ tmp' = files.tmp

Files == [target |-> Target, tmp |-> tmp]

WriterFrame ==
    UNCHANGED <<user_blocks, log, calls, limit, lockVars, fwVars, usageVars, sessionVars, taskVars>>

Goto(pc) == w' = [w EXCEPT !.pc = pc]
\* The step raised: the except branch runs next.
Raise == w' = [w EXCEPT !.pc = "fallback", !.path = "fallback"]

\* The texts handed to the writers.
HostsContents == { <<Text("a"), NL>>, <<Text("a"), NL, Redirect("instagram.com"), NL>> }
UsageContents ==
    { JsonDumps([date |-> "2026-01-01", used_seconds |-> u, sessions |-> 1]) :
        u \in {0, 60} }

\* _write_hosts_file(content) or _save_data(platform, data) is entered.  The
\* temporary file of an earlier, killed write has another name.
WriteCall(fn, id, content) ==
    /\ w.pc \in {"idle", "done", "killed", "raised"}
    /\ w.n < MaxWrites
    /\ w' = [pc |-> IF fn = "hosts" THEN "ensure_backup" ELSE "ensure_data_dir",
             fn |-> fn, id |-> id, content |-> content,
             old |-> IF fn = "hosts" THEN hosts ELSE usage_file[id],
             path |-> "atomic", n |-> w.n + 1]
    /\ tmp' = NoFile
    /\ UNCHANGED <<hosts, backup, usage_file>>
    /\ WriterFrame

write_hosts_file == \E content \in HostsContents : WriteCall("hosts", "", content)

save_data ==
    \E id \in PlatformIds, content \in UsageContents : WriteCall("usage", id, content)

\* _ensure_hosts_backup(); _remove_readonly() changes no content.
ensure_hosts_backup ==
    /\ w.pc = "ensure_backup"
    /\ \E copied \in BOOLEAN : backup' = EnsureHostsBackup(backup, hosts, copied)
    /\ Goto("mkstemp")
    /\ UNCHANGED <<hosts, usage_file, tmp>>
    /\ WriterFrame

\* _ensure_data_dir() stands before the try: what mkdir raises leaves _save_data.
ensure_data_dir ==
    /\ w.pc = "ensure_data_dir"
    /\ \/ Goto("mkstemp")
       \/ Goto("raised")
    /\ UNCHANGED <<hosts, backup, usage_file, tmp>>
    /\ WriterFrame

mkstemp ==
    /\ w.pc = "mkstemp"
    /\ \/ tmp' = <<>> /\ Goto("write")
       \/ tmp' = tmp /\ Raise
    /\ UNCHANGED <<hosts, backup, usage_file>>
    /\ WriterFrame

\* f.write(content): the buffer passes on any part of the text.
fd_write ==
    /\ w.pc = "write"
    /\ \/ \E data \in Prefixes(w.content) : Store(FdWrite(Files, data)) /\ Goto("flush")
       \/ \E data \in ProperPrefixes(w.content) : Store(FdWrite(Files, data)) /\ Raise
    /\ UNCHANGED backup
    /\ WriterFrame

fd_flush ==
    /\ w.pc = "flush"
    /\ \/ Store(FdWrite(Files, w.content)) /\ Goto("fsync")
       \/ Store(Files) /\ Raise
    /\ UNCHANGED backup
    /\ WriterFrame

fsync ==
    /\ w.pc = "fsync"
    /\ \/ Goto("replace")
       \/ Raise
    /\ UNCHANGED <<hosts, backup, usage_file, tmp>>
    /\ WriterFrame

os_replace ==
    /\ w.pc = "replace"
    /\ \/ Store(Replace(Files)) /\ Goto("finally")
       \/ Store(Files) /\ Raise
    /\ UNCHANGED backup
    /\ WriterFrame

\* write_text opens the target for writing, which empties it.
fallback_open ==
    /\ w.pc = "fallback"
    /\ \/ SetTarget(<<>>) /\ Goto("fallback_write")
       \/ SetTarget(Target) /\ Goto("finally")
    /\ UNCHANGED <<backup, tmp>>
    /\ WriterFrame

fallback_write ==
    /\ w.pc = "fallback_write"
    /\ \E data \in Prefixes(w.content) : SetTarget(data)
    /\ Goto("finally")
    /\ UNCHANGED <<backup, tmp>>
    /\ WriterFrame

\* finally: os.unlink(tmp_path) when the temporary file is still there.
finally ==
    /\ w.pc = "finally"
    /\ tmp' = NoFile
    /\ Goto("done")
    /\ UNCHANGED <<hosts, backup, usage_file>>
    /\ WriterFrame

\* The process is killed inside the call: the files stay as they are.
kill ==
    /\ w.pc \notin {"idle", "done", "killed", "raised"}
    /\ Goto("killed")
    /\ UNCHANGED <<hosts, backup, usage_file, tmp>>
    /\ WriterFrame

InitWrite ==
    /\ hosts \in {<<>>} \cup HostsContents
    /\ backup = NoFile
    /\ user_blocks = <<>>
    /\ log = NoCall
    /\ calls = 0
    /\ limit = 0
    /\ usage_file \in [PlatformIds -> {NoFile} \cup UsageContents]
    /\ tmp = NoFile
    /\ w = NoWrite
    /\ LockIdle
    /\ FwIdle
    /\ UsageIdle
    /\ TaskIdle
    /\ SessionIdle

NextWrite ==
    \/ write_hosts_file
    \/ save_data
    \/ ensure_hosts_backup
    \/ ensure_data_dir
    \/ mkstemp
    \/ fd_write
    \/ fd_flush
    \/ fsync
    \/ os_replace
    \/ fallback_open
    \/ fallback_write
    \/ finally
    \/ kill

SpecWrite == InitWrite /\ [][NextWrite]_vars

(***************************************************************************)
(* Threads calling block_platform, unblock_platform and                    *)
(* block_permanent_domains at once.  Each call takes _hosts_lock, reads    *)
(* the file, writes the new text and leaves the "with" block on return.    *)
(***************************************************************************)
PlatformOfTag(tag) == CHOOSE platform \in ALL_PLATFORMS : platform.marker_tag = tag

\* new_content of the call, from the content it read.
NewContentOf(call) ==
    CASE call.op = "block" -> BlockContent(call.content, PlatformOfTag(call.tag))
      [] call.op = "unblock" -> UnblockContent(call.content, PlatformOfTag(call.tag))
      [] call.op = "permanent" ->
            PermanentContent(call.content, GetAllPermanentDomains(user_blocks))

LockFrame ==
    UNCHANGED <<user_blocks, log, calls, limit, writerVars, fwVars, usageVars, sessionVars, taskVars>>

ThreadCalls ==
    { [op |-> op, tag |-> platform.marker_tag] :
        op \in {"block", "unblock"}, platform \in ALL_PLATFORMS }
    \cup { [op |-> "permanent", tag |-> PERMANENT_BLOCK_TAG] }

\* A thread enters one of the three functions and waits for the lock.
thread_call(t) ==
    /\ th[t].pc = "idle"
    /\ \E c \in ThreadCalls :
         th' = [th EXCEPT ![t] = [NoThreadCall EXCEPT
                                    !.pc = "acquire", !.op = c.op, !.tag = c.tag]]
    /\ UNCHANGED <<hosts, backup, hosts_lock>>
    /\ LockFrame

\* threading.Lock: taken only when free.
LockFree(holder) == holder = 0

\* with _hosts_lock: (entry)
lock_acquire(t) ==
    /\ th[t].pc = "acquire"
    /\ LockFree(hosts_lock)
    /\ hosts_lock' = t
    /\ th' = [th EXCEPT ![t].pc = "read"]
    /\ UNCHANGED <<hosts, backup>>
    /\ LockFrame

\* content = _read_hosts_file(); an exception leads to "return False".
thread_read(t) ==
    /\ th[t].pc = "read"
    /\ \/ th' = [th EXCEPT ![t].pc = "write", ![t].content = hosts]
       \/ th' = [th EXCEPT ![t].pc = "release", ![t].ret = FALSE]
    /\ UNCHANGED <<hosts, backup, hosts_lock>>
    /\ LockFrame

\* _write_hosts_file(new_content); _flush_dns(); return True
thread_write(t) ==
    /\ th[t].pc = "write"
    /\ \E copied \in (IF backup = NoFile THEN BOOLEAN ELSE {FALSE}),
          written \in {"atomic", "fallback", "failed"} :
         /\ backup' = EnsureHostsBackup(backup, hosts, copied)
         /\ hosts' = WriteHostsFile(hosts, NewContentOf(th[t]), written)
         /\ th' = [th EXCEPT ![t].pc = "release", ![t].ret = TRUE,
                             ![t].wrote = (written # "failed")]
    /\ UNCHANGED hosts_lock
    /\ LockFrame

\* with _hosts_lock: (exit, on return)
lock_release(t) ==
    /\ th[t].pc = "release"
    /\ hosts_lock' = 0
    /\ th' = [th EXCEPT ![t].pc = "returned"]
    /\ UNCHANGED <<hosts, backup>>
    /\ LockFrame

InitLock ==
    /\ hosts \in {<<>>, <<Text("a"), NL>>, <<Text("a")>>}
    /\ backup = NoFile
    /\ user_blocks = <<>>
    /\ log = NoCall
    /\ calls = 0
    /\ limit = 0
    /\ Idle

NextLock ==
    \/ \E t \in Threads : thread_call(t)
    \/ \E t \in Threads : lock_acquire(t)
    \/ \E t \in Threads : thread_read(t)
    \/ \E t \in Threads : thread_write(t)
    \/ \E t \in Threads : lock_release(t)

SpecLock == InitLock /\ [][NextLock]_vars

(***************************************************************************)
(* The firewall manager.  Every rule-table command goes through            *)
(* _run_netsh, which returns (False, ...) when netsh fails and when it     *)
(* does not answer within _SUBPROCESS_TIMEOUT; by then netsh may have      *)
(* acted.  "add rule" adds a rule whatever rules of that name exist;       *)
(* "delete rule name=X" removes every rule named X and fails when there is *)
(* none.                                                                   *)
(***************************************************************************)
\* _run_netsh: netsh acted and returned 0; did nothing; acted past the timeout.
NetshOutcomes ==
    { [effect |-> TRUE, ok |-> TRUE],
      [effect |-> FALSE, ok |-> FALSE],
      [effect |-> TRUE, ok |-> FALSE] }

AddRule(table, name) == [table EXCEPT ![name] = @ + 1]

\* A delete that leaves the rules in place.
DeleteRuleKeep(table, name) == table

\* netsh advfirewall firewall delete rule name=...
DeleteRule(table, name) == [table EXCEPT ![name] = 0]

RunAdd(table, name, o) == IF o.effect THEN AddRule(table, name) ELSE table
RunDelete(table, name, o) == IF o.effect THEN DeleteRule(table, name) ELSE table

\* The command was carried out; a delete with no rule to delete counts.
AddCarried(table, name, o) == o.effect
DeleteCarried(table, name, o) == o.effect \/ table[name] = 0

\* The outcomes of an add: the table holds at most MaxRules rules of a name.
AddOutcomes(table, name) ==
    { o \in NetshOutcomes : o.effect => table[name] < MaxRules }

BothDnsRules(table) == table[_DNS_RULE_NAME] > 0 /\ table[_DOT_RULE_NAME] > 0

FwFrame == UNCHANGED <<hostsVars, writerVars, lockVars, usageVars, sessionVars, taskVars>>
AllowlistState == <<flag, allowlist_active, allowlist_thread, stop_event, rt>>

\* The main thread enters fn.
UiCall(fn, pc) ==
    /\ ui.pc = "idle"
    /\ ui' = [ui EXCEPT !.pc = pc, !.fn = fn, !.eff = TRUE, !.ret = FALSE,
                        !.locked = @ /\ fn \notin {"unblock_alternative_dns",
                                                   "cleanup_all_rules"}]
    /\ UNCHANGED rules

\* _delete_rule(name) on the main thread, its result dropped.
UiDelete(pc, name, next) ==
    /\ ui.pc = pc
    /\ \E o \in NetshOutcomes :
         /\ rules' = RunDelete(rules, name, o)
         /\ ui' = [ui EXCEPT !.pc = next,
                             !.eff = @ /\ DeleteCarried(rules, name, o)]

\* _run_netsh([... "add", "rule", name ...]) on the main thread; kept tells
\* whether the call's return value is this command's result.
UiAdd(pc, name, next, kept) ==
    /\ ui.pc = pc
    /\ \E o \in AddOutcomes(rules, name) :
         /\ rules' = RunAdd(rules, name, o)
         /\ ui' = [ui EXCEPT !.pc = next,
                             !.eff = @ /\ AddCarried(rules, name, o),
                             !.ret = IF kept THEN o.ok ELSE @]

\* The call returns.
UiReturn ==
    /\ ui.pc = "return"
    /\ ui' = [ui EXCEPT
                !.pc = "idle",
                !.blocks = IF ui.fn = "block_alternative_dns"
                           THEN Min(@ + 1, 2) ELSE 0,
                !.carried = IF ui.fn = "block_alternative_dns" /\ ui.eff
                            THEN Min(@ + 1, 2) ELSE 0,
                !.locked = @ \/ BothDnsRules(rules)]
    /\ UNCHANGED rules

block_alternative_dns ==
    /\ \/ UiCall("block_alternative_dns", "block_del_dns")
       \/ UiDelete("block_del_dns", _DNS_RULE_NAME, "block_del_dot")
       \/ UiDelete("block_del_dot", _DOT_RULE_NAME, "block_add_dns")
       \/ UiAdd("block_add_dns", _DNS_RULE_NAME, "block_add_dot", TRUE)
       \/ UiAdd("block_add_dot", _DOT_RULE_NAME, "return", FALSE)
    /\ UNCHANGED AllowlistState
    /\ FwFrame

\* return dns_ok or dot_ok
unblock_alternative_dns ==
    /\ \/ UiCall("unblock_alternative_dns", "unblock_del_dns")
       \/ UiDelete("unblock_del_dns", _DNS_RULE_NAME, "unblock_del_dot")
       \/ UiDelete("unblock_del_dot", _DOT_RULE_NAME, "return")
    /\ UNCHANGED AllowlistState
    /\ FwFrame

ui_return ==
    /\ UiReturn
    /\ UNCHANGED AllowlistState
    /\ FwFrame

\* The process ends, at any point of a call or between calls, and the next
\* one starts: the module's globals are new, the rule table and the flag
\* file stay.
process_exit ==
    /\ ui' = [NoUi EXCEPT !.fn = "exit", !.locked = ui.locked \/ BothDnsRules(rules)]
    /\ allowlist_active' = FALSE
    /\ allowlist_thread' = 0
    /\ stop_event' = FALSE
    /\ rt' = [t \in RefreshThreads |-> Dead]
    /\ UNCHANGED <<rules, flag>>
    /\ FwFrame

InitDns ==
    /\ InitHosts(0, 0)
    /\ WriterIdle
    /\ LockIdle
    /\ UsageIdle
    /\ TaskIdle
    /\ SessionIdle
    /\ rules \in { table \in [RuleNames -> 0..MaxRules] :
                     \A name \in AllowlistRules : table[name] = 0 }
    /\ flag = FALSE
    /\ allowlist_active = FALSE
    /\ allowlist_thread = 0
    /\ stop_event = FALSE
    /\ rt = [t \in RefreshThreads |-> Dead]
    /\ ui = [NoUi EXCEPT !.locked = BothDnsRules(rules)]

(***************************************************************************)
(* Allowlist mode.  _apply_allowlist_rules runs on the main thread, from   *)
(* enable_allowlist_mode, and on the refresh thread.                       *)
(***************************************************************************)
\* The netsh commands of _apply_allowlist_rules, in order.
ApplyProgram ==
    << [cmd |-> "delete", name |-> _ALLOWLIST_BLOCK_ALL_RULE],
       [cmd |-> "delete", name |-> AllowRule("0")],
       [cmd |-> "delete", name |-> AllowRule("local")],
       [cmd |-> "add", name |-> _ALLOWLIST_BLOCK_ALL_RULE],
       [cmd |-> "add", name |-> AllowRule("0")],
       [cmd |-> "add", name |-> AllowRule("local")] >>

\* Deletes that take the DNS-Lock rule along.
DeleteProgramAll ==
    SubSeq(ApplyProgram, 1, 3) \o <<[cmd |-> "delete", name |-> _DNS_RULE_NAME]>>

\* The deletes of disable_allowlist_mode and cleanup_orphaned_allowlist.
DeleteProgram == SubSeq(ApplyProgram, 1, 3)

CommandOutcomes(table, c) ==
    IF c.cmd = "add" THEN AddOutcomes(table, c.name) ELSE NetshOutcomes

RunCommand(table, c, o) ==
    IF c.cmd = "add" THEN RunAdd(table, c.name, o) ELSE RunDelete(table, c.name, o)

CommandCarried(table, c, o) ==
    IF c.cmd = "add" THEN AddCarried(table, c.name, o)
    ELSE DeleteCarried(table, c.name, o)

\* if not block_ok: return False
ApplyFailed(i, o) == ApplyProgram[i].name = _ALLOWLIST_BLOCK_ALL_RULE
                     /\ ApplyProgram[i].cmd = "add" /\ ~o.ok

\* The main thread runs command i of program and goes on to next after the
\* last one.
UiRun(pc, program, next) ==
    /\ ui.pc = pc
    /\ \E o \in CommandOutcomes(rules, program[ui.i]) :
         /\ rules' = RunCommand(rules, program[ui.i], o)
         /\ ui' = [ui EXCEPT
                     !.eff = @ /\ CommandCarried(rules, program[ui.i], o),
                     !.pc = IF pc = "enable_apply" /\ ApplyFailed(ui.i, o) THEN "return"
                            ELSE IF ui.i = Len(program) THEN next ELSE pc,
                     !.i = IF ui.i = Len(program) THEN 0 ELSE @ + 1]

UiGoto(pc) == ui' = [ui EXCEPT !.pc = pc, !.i = 1]

\* The refresh thread enable_allowlist_mode starts: one that does not run.
FreeThreads == { t \in RefreshThreads : rt[t] = Dead }

enable_allowlist_mode ==
    /\ \/ /\ UiCall("enable_allowlist_mode", "enable_check")
          /\ FreeThreads # {}
          /\ UNCHANGED AllowlistState
       \/ /\ ui.pc = "enable_check"
          /\ IF allowlist_active
             THEN ui' = [ui EXCEPT !.pc = "return", !.ret = TRUE]
                  /\ UNCHANGED stop_event
             ELSE UiGoto("enable_apply") /\ stop_event' = FALSE
          /\ UNCHANGED <<rules, flag, allowlist_active, allowlist_thread, rt>>
       \/ /\ UiRun("enable_apply", ApplyProgram, "enable_start")
          /\ UNCHANGED AllowlistState
       \/ /\ ui.pc = "enable_start"
          /\ allowlist_active' = TRUE
          /\ \E t \in FreeThreads :
               /\ allowlist_thread' = t
               /\ rt' = [rt EXCEPT ![t] = [pc |-> "wait", i |-> 0]]
          /\ UiGoto("enable_persist")
          /\ UNCHANGED <<rules, flag, stop_event>>
       \/ /\ ui.pc = "enable_persist"
          /\ flag' \in {TRUE, flag}
          /\ ui' = [ui EXCEPT !.pc = "return", !.ret = TRUE]
          /\ UNCHANGED <<rules, allowlist_active, allowlist_thread, stop_event, rt>>
    /\ FwFrame

\* disable_allowlist_mode from its first statement on; cleanup_all_rules
\* runs it too.  join(timeout=5) returns when the thread has ended and when
\* the five seconds are over.
disable_steps ==
    \/ /\ ui.pc = "disable_set"
       /\ stop_event' = TRUE
       /\ UiGoto("disable_join")
       /\ UNCHANGED <<rules, flag, allowlist_active, allowlist_thread, rt>>
    \/ /\ ui.pc = "disable_join"
       /\ allowlist_thread' = 0
       /\ UiGoto("disable_delete")
       /\ UNCHANGED <<rules, flag, allowlist_active, stop_event, rt>>
    \/ /\ UiRun("disable_delete", DeleteProgram, "disable_persist")
       /\ UNCHANGED AllowlistState
    \/ /\ ui.pc = "disable_persist"
       /\ allowlist_active' = FALSE
       /\ flag' \in {FALSE, flag}
       /\ UiGoto("return")
       /\ UNCHANGED <<rules, allowlist_thread, stop_event, rt>>

disable_allowlist_mode ==
    /\ \/ UiCall("disable_allowlist_mode", "disable_set") /\ UNCHANGED AllowlistState
       \/ disable_steps
    /\ FwFrame

cleanup_all_rules ==
    /\ \/ UiCall("cleanup_all_rules", "cleanup_del_dns")
       \/ UiDelete("cleanup_del_dns", _DNS_RULE_NAME, "cleanup_del_dot")
       \/ UiDelete("cleanup_del_dot", _DOT_RULE_NAME, "disable_set")
    /\ UNCHANGED AllowlistState
    /\ FwFrame

\* Acts only when the flag file exists; unlink may raise, which is logged.
cleanup_orphaned_allowlist ==
    /\ \/ /\ UiCall("cleanup_orphaned_allowlist", "orphan_check")
          /\ UNCHANGED flag
       \/ /\ ui.pc = "orphan_check"
          /\ IF flag THEN UiGoto("orphan_delete") ELSE UiGoto("return")
          /\ UNCHANGED <<rules, flag>>
       \/ /\ UiRun("orphan_delete", DeleteProgram, "orphan_unlink")
          /\ UNCHANGED flag
       \/ /\ ui.pc = "orphan_unlink"
          /\ flag' \in {FALSE, flag}
          /\ UiGoto("return")
          /\ UNCHANGED rules
    /\ UNCHANGED <<allowlist_active, allowlist_thread, stop_event, rt>>
    /\ FwFrame

\* _allowlist_refresh_loop: the wait ends, by the interval or by the event;
\* with the event set the loop ends, else the domains are resolved and the
\* rules applied.
refresh_wait(t) ==
    /\ rt[t].pc = "wait"
    /\ rt' = [rt EXCEPT ![t] = IF stop_event THEN Dead ELSE [pc |-> "apply", i |-> 1]]
    /\ UNCHANGED <<rules, flag, allowlist_active, allowlist_thread, stop_event, ui>>
    /\ FwFrame

\* _apply_allowlist_rules(allowed_ips) on the refresh thread, its result dropped.
refresh_apply(t) ==
    /\ rt[t].pc = "apply"
    /\ \E o \in CommandOutcomes(rules, ApplyProgram[rt[t].i]) :
         /\ rules' = RunCommand(rules, ApplyProgram[rt[t].i], o)
         /\ rt' = [rt EXCEPT ![t] =
                     IF ApplyFailed(rt[t].i, o) \/ rt[t].i = Len(ApplyProgram)
                     THEN [pc |-> "wait", i |-> 0]
                     ELSE [pc |-> "apply", i |-> rt[t].i + 1]]
    /\ UNCHANGED <<flag, allowlist_active, allowlist_thread, stop_event, ui>>
    /\ FwFrame

NextDns ==
    \/ block_alternative_dns
    \/ unblock_alternative_dns
    \/ cleanup_all_rules
    \/ disable_allowlist_mode
    \/ ui_return
    \/ process_exit

SpecDns == InitDns /\ [][NextDns]_vars

InitAllow == InitHosts(0, 0) /\ Idle

NextAllow ==
    \/ enable_allowlist_mode
    \/ disable_allowlist_mode
    \/ cleanup_orphaned_allowlist
    \/ \E t \in RefreshThreads : refresh_wait(t)
    \/ \E t \in RefreshThreads : refresh_apply(t)
    \/ ui_return
    \/ process_exit

SpecAllow == InitAllow /\ [][NextAllow]_vars

(***************************************************************************)
(* The usage tracker.  A ledger file holds json.dumps of a UsageData; the  *)
(* logical day changes at RESET_HOUR.  Seconds are whole numbers here.     *)
(***************************************************************************)
\* date.isoformat() of the calendar days, day 0 being the eve of day 1.
IsoDates ==
    << "2025-12-31", "2026-01-01", "2026-01-02", "2026-01-03", "2026-01-04",
       "2026-01-05" >>
IsoFormat(day) == IsoDates[day + 1]

\* The hours the clock is looked at: the last before the reset and the first
\* after it.
ClockHours == {RESET_HOUR - 1, RESET_HOUR}
Times == [day : 1..MaxDays, hour : ClockHours]
Later(t1, t2) == t2.day > t1.day \/ (t2.day = t1.day /\ t2.hour > t1.hour)

LogicalDay(t) == IF t.hour < RESET_HOUR THEN t.day - 1 ELSE t.day
\* A logical day beginning at midnight.
GetLogicalDayStrMidnight(t) == IsoFormat(t.day)

GetLogicalDayStr(t) == IsoFormat(LogicalDay(t))

\* The seconds add_usage is called with are multiples of Quantum.
Quantum == 400
Deltas == {Quantum, 2 * Quantum}

\* The numbers a ledger can hold, and the number a JSON text stands for.
LedgerNumbers ==
    { q * Quantum : q \in 0..((MaxUsedSeconds \div Quantum) + 2) }
    \cup 0..(MaxSessions + 1)
ParseNumber(v) == CHOOSE n \in LedgerNumbers : ToString(n) = v

\* json.loads(raw): an object, another JSON value, or JSONDecodeError.
JsonLoads(raw) ==
    LET n == Len(raw)
        inner == IF n >= 2 THEN SubSeq(raw, 2, n - 1) ELSE <<>>
        keys == { inner[i].k : i \in 1..Len(inner) }
        value(key) == (CHOOSE i \in 1..Len(inner) : inner[i].k = key)
    IN IF /\ n >= 2 /\ raw[1].k = "{" /\ raw[n].k = "}"
          /\ \A i \in 1..Len(inner) : inner[i].k \in {"date", "used_seconds", "sessions"}
          /\ Cardinality(keys) = Len(inner)
       THEN [kind |-> "object",
             obj |-> [key \in keys |->
                        IF key = "date" THEN inner[value(key)].v
                        ELSE ParseNumber(inner[value(key)].v)]]
       ELSE IF n >= 2 /\ raw[1].k = "[" /\ raw[n].k = "]"
       THEN [kind |-> "array", obj |-> <<>>]
       ELSE [kind |-> "error", obj |-> <<>>]

\* UsageData(date=today, used_seconds=0.0, sessions=0)
NewUsageData(today) == [date |-> today, used_seconds |-> 0, sessions |-> 0]

Raised == [raised |-> TRUE, data |-> <<>>]
Loaded(data) == [raised |-> FALSE, data |-> data]

\* What reading the ledger can do: _ensure_data_dir (and read_text after it)
\* may raise OSError.
LoadOutcomes == {"ok", "oserror"}

\* _load_data(platform): except catches JSONDecodeError and KeyError only.
LoadData(file, t, o) ==
    LET today == GetLogicalDayStr(t) IN
    IF o = "oserror" THEN Raised
    ELSE IF file = NoFile THEN Loaded(NewUsageData(today))
    ELSE LET parsed == JsonLoads(file) IN
         IF parsed.kind = "error" THEN Loaded(NewUsageData(today))
         ELSE IF parsed.kind # "object" THEN Raised
         ELSE IF "date" \in DOMAIN parsed.obj /\ parsed.obj["date"] = today
              THEN Loaded(parsed.obj)
              ELSE Loaded(NewUsageData(today))

\* What _save_data leaves in the ledger file.
SaveOutcomes == {"written", "failed"}
SaveData(file, data, written) ==
    IF written = "written" THEN JsonDumps(data) ELSE file

\* The result of a call: raised, the value returned, the ledger afterwards.
CallRaised(file) == [raised |-> TRUE, ret |-> 0, file |-> file, saved |-> FALSE]
CallReturned(ret, file, saved) ==
    [raised |-> FALSE, ret |-> ret, file |-> file, saved |-> saved]

\* get_used_seconds(platform): data["used_seconds"]
GetUsedSeconds(file, t, o) ==
    LET l == LoadData(file, t, o) IN
    IF l.raised THEN CallRaised(file)
    ELSE IF "used_seconds" \notin DOMAIN l.data THEN CallRaised(file)
    ELSE CallReturned(l.data["used_seconds"], file, FALSE)

\* limit_seconds - used
GetRemainingSecondsUnclamped(platform, file, t, o) ==
    LET used == GetUsedSeconds(file, t, o) IN
    IF used.raised THEN used
    ELSE CallReturned(platform.daily_limit_minutes * 60 - used.ret, file, FALSE)

\* max(0.0, limit_seconds - used)
GetRemainingSeconds(platform, file, t, o) ==
    LET used == GetUsedSeconds(file, t, o) IN
    IF used.raised THEN used
    ELSE CallReturned(Max(0, platform.daily_limit_minutes * 60 - used.ret), file, FALSE)

\* 1 for True, 0 for False
IsLimitReached(platform, file, t, o) ==
    LET remaining == GetRemainingSeconds(platform, file, t, o) IN
    IF remaining.raised THEN remaining
    ELSE CallReturned(IF remaining.ret <= 0 THEN 1 ELSE 0, file, FALSE)

\* data[key] += amount; _save_data(platform, data); return data[key]
AddTo(key, file, t, amount, o, written) ==
    LET l == LoadData(file, t, o) IN
    IF l.raised THEN CallRaised(file)
    ELSE IF key \notin DOMAIN l.data THEN CallRaised(file)
    ELSE LET data == [l.data EXCEPT ![key] = @ + amount] IN
         CallReturned(data[key], SaveData(file, data, written), written # "failed")

AddUsage(file, t, seconds, o, written) == AddTo("used_seconds", file, t, seconds, o, written)
IncrementSessionCount(file, t, o, written) == AddTo("sessions", file, t, 1, o, written)

\* reset_platform(platform): _save_data makes the data directory first.
ResetPlatform(file, t, o, written) ==
    IF o = "oserror" THEN CallRaised(file)
    ELSE CallReturned(0, SaveData(file, NewUsageData(GetLogicalDayStr(t)), written),
                      written # "failed")

\* The ledger stays within the numbers a run holds.
WithinBounds(result) ==
    LET parsed == JsonLoads(result.file) IN
    (result.file # NoFile /\ parsed.kind = "object") =>
        /\ "used_seconds" \in DOMAIN parsed.obj => parsed.obj["used_seconds"] <= MaxUsedSeconds
        /\ "sessions" \in DOMAIN parsed.obj => parsed.obj["sessions"] <= MaxSessions

UsageFrame == UNCHANGED <<hostsVars, tmp, w, lockVars, fwVars, sessionVars, taskVars>>

\* A run of SpecUsage works on the ledger of one platform.
OneLedger(files, platform) ==
    \A id \in PlatformIds \ {platform.id} : files[id] = NoFile

\* A call of the tracker on platform, under its lock from load to return.
TrackerCall(op, platform, o, result) ==
    /\ OneLedger(usage_file, platform)
    /\ WithinBounds(result)
    /\ usage_file' = [usage_file EXCEPT ![platform.id] = result.file]
    /\ ulog' = [op |-> op, id |-> platform.id, io |-> o,
                raised |-> result.raised, ret |-> result.ret]
    /\ UNCHANGED <<now, platform_locks, ut>>
    /\ UsageFrame

get_used_seconds(platform) ==
    \E o \in LoadOutcomes :
      TrackerCall("get_used_seconds", platform, o,
                  GetUsedSeconds(usage_file[platform.id], now, o))

get_remaining_seconds(platform) ==
    \E o \in LoadOutcomes :
      TrackerCall("get_remaining_seconds", platform, o,
                  GetRemainingSeconds(platform, usage_file[platform.id], now, o))

is_limit_reached(platform) ==
    \E o \in LoadOutcomes :
      TrackerCall("is_limit_reached", platform, o,
                  IsLimitReached(platform, usage_file[platform.id], now, o))

add_usage(platform) ==
    \E seconds \in Deltas, o \in LoadOutcomes, written \in SaveOutcomes :
      TrackerCall("add_usage", platform, o,
                  AddUsage(usage_file[platform.id], now, seconds, o, written))

increment_session_count(platform) ==
    \E o \in LoadOutcomes, written \in SaveOutcomes :
      TrackerCall("increment_session_count", platform, o,
                  IncrementSessionCount(usage_file[platform.id], now, o, written))

reset_platform(platform) ==
    \E o \in LoadOutcomes, written \in SaveOutcomes :
      TrackerCall("reset_platform", platform, o,
                  ResetPlatform(usage_file[platform.id], now, o, written))

\* Time passes.
tick ==
    /\ \E t \in Times : Later(now, t) /\ now' = t
    /\ UNCHANGED <<usage_file, ulog, platform_locks, ut>>
    /\ UsageFrame

\* The ledgers found at the start: none, one written on the eve or on the
\* first day, and damaged ones.
NotJson == << [k |-> "text", v |-> "not json"] >>
JsonArray == << [k |-> "[", v |-> ""], [k |-> "]", v |-> ""] >>
Today == GetLogicalDayStr(StartClock)
DamagedLedgers ==
    { NotJson, JsonArray,
      JsonDumps([date |-> Today, sessions |-> 0]),
      JsonDumps([date |-> Today, used_seconds |-> Quantum]) }
InitLedgers ==
    {NoFile}
    \cup { JsonDumps([date |-> IsoFormat(day), used_seconds |-> u, sessions |-> 0]) :
             day \in {0, 1}, u \in {Quantum} }
    \cup DamagedLedgers

InitUsage ==
    /\ hosts = <<>>
    /\ backup = NoFile
    /\ user_blocks = <<>>
    /\ log = NoCall
    /\ calls = 0
    /\ limit = 0
    /\ usage_file \in [PlatformIds -> InitLedgers]
    /\ \E platform \in ALL_PLATFORMS : OneLedger(usage_file, platform)
    /\ tmp = NoFile
    /\ w = NoWrite
    /\ LockIdle
    /\ FwIdle
    /\ UsageIdle
    /\ TaskIdle
    /\ SessionIdle

NextUsage ==
    \/ \E platform \in ALL_PLATFORMS : get_used_seconds(platform)
    \/ \E platform \in ALL_PLATFORMS : get_remaining_seconds(platform)
    \/ \E platform \in ALL_PLATFORMS : is_limit_reached(platform)
    \/ \E platform \in ALL_PLATFORMS : add_usage(platform)
    \/ \E platform \in ALL_PLATFORMS : increment_session_count(platform)
    \/ \E platform \in ALL_PLATFORMS : reset_platform(platform)
    \/ tick

SpecUsage == InitUsage /\ [][NextUsage]_vars

(***************************************************************************)
(* Threads calling add_usage and increment_session_count at once, within   *)
(* one logical day.  Each call takes the lock of its platform, loads the   *)
(* ledger, saves it and leaves the "with" block on return.                 *)
(***************************************************************************)
UsageCalls ==
    { [op |-> "add_usage", id |-> id, seconds |-> Quantum] : id \in PlatformIds }
    \cup { [op |-> "increment_session_count", id |-> id, seconds |-> 0] :
             id \in PlatformIds }

UsageLockFrame ==
    UNCHANGED <<hostsVars, tmp, w, lockVars, fwVars, now, ulog, sessionVars, taskVars>>

usage_call(t) ==
    /\ ut[t].pc = "idle"
    /\ \E c \in UsageCalls :
         ut' = [ut EXCEPT ![t] = [NoUsageThread EXCEPT
                  !.pc = "acquire", !.op = c.op, !.id = c.id, !.seconds = c.seconds]]
    /\ UNCHANGED <<usage_file, platform_locks>>
    /\ UsageLockFrame

\* lock = _get_platform_lock(platform); with lock: (entry)
usage_acquire(t) ==
    /\ ut[t].pc = "acquire"
    /\ LockFree(platform_locks[ut[t].id])
    /\ platform_locks' = [platform_locks EXCEPT ![ut[t].id] = t]
    /\ ut' = [ut EXCEPT ![t].pc = "load"]
    /\ UNCHANGED usage_file
    /\ UsageLockFrame

\* data = _load_data(platform); what it raises leaves the call.
usage_load(t) ==
    /\ ut[t].pc = "load"
    /\ \E o \in LoadOutcomes :
         LET l == LoadData(usage_file[ut[t].id], now, o) IN
         ut' = [ut EXCEPT ![t] =
                  IF l.raised THEN [@ EXCEPT !.pc = "release", !.raised = TRUE]
                  ELSE [@ EXCEPT !.pc = "save", !.data = l.data]]
    /\ UNCHANGED <<usage_file, platform_locks>>
    /\ UsageLockFrame

\* data[key] += ...; _save_data(platform, data); return data[key]
usage_save(t) ==
    /\ ut[t].pc = "save"
    /\ \E written \in SaveOutcomes :
         LET key == IF ut[t].op = "add_usage" THEN "used_seconds" ELSE "sessions"
             amount == IF ut[t].op = "add_usage" THEN ut[t].seconds ELSE 1
             data == [ut[t].data EXCEPT ![key] = @ + amount]
             file == SaveData(usage_file[ut[t].id], data, written)
         IN /\ WithinBounds([file |-> file])
            /\ usage_file' = [usage_file EXCEPT ![ut[t].id] = file]
            /\ ut' = [ut EXCEPT ![t].pc = "release", ![t].data = data,
                                ![t].saved = (written # "failed")]
    /\ UNCHANGED platform_locks
    /\ UsageLockFrame

\* with lock: (exit)
usage_release(t) ==
    /\ ut[t].pc = "release"
    /\ platform_locks' = [platform_locks EXCEPT ![ut[t].id] = 0]
    /\ ut' = [ut EXCEPT ![t].pc = "returned"]
    /\ UNCHANGED usage_file
    /\ UsageLockFrame

\* Ledgers with no usage on the logical day of the run: none, or the eve's.
InitUsageLock ==
    /\ hosts = <<>>
    /\ backup = NoFile
    /\ user_blocks = <<>>
    /\ log = NoCall
    /\ calls = 0
    /\ limit = 0
    /\ usage_file \in [PlatformIds ->
         {NoFile, JsonDumps([date |-> IsoFormat(0), used_seconds |-> Quantum,
                             sessions |-> 1])}]
    /\ tmp = NoFile
    /\ w = NoWrite
    /\ LockIdle
    /\ FwIdle
    /\ UsageIdle
    /\ TaskIdle
    /\ SessionIdle

NextUsageLock ==
    \/ \E t \in UsageThreads : usage_call(t)
    \/ \E t \in UsageThreads : usage_acquire(t)
    \/ \E t \in UsageThreads : usage_load(t)
    \/ \E t \in UsageThreads : usage_save(t)
    \/ \E t \in UsageThreads : usage_release(t)

SpecUsageLock == InitUsageLock /\ [][NextUsageLock]_vars

(***************************************************************************)
(* Session state.  A blackout and a web-block session each keep a small    *)
(* JSON file while they run; it is read once when the process starts.      *)
(* Times are whole seconds since 04:00:00 of day 1.  The blackout's own     *)
(* write_text and unlink can fail, and the failure is swallowed; those of  *)
(* the loaders and of the web-block section are taken to succeed.          *)
(***************************************************************************)
\* The time that passes between two looks at the clock.
Elapses == {300}
\* The instants a state file can hold: the whole half minutes.
Instants == { t \in 0..MaxClock : t % 30 = 0 }

TwoDigits(n) == IF n < 10 THEN "0" \o ToString(n) ELSE ToString(n)

\* datetime.isoformat() of an instant of the first hour
IsoDateTime(t) ==
    IsoFormat(1) \o "T04:" \o TwoDigits(t \div 60) \o ":" \o TwoDigits(t % 60)

\* A fromisoformat that takes a text it cannot read for the last instant.
FromIsoFormatAny(v) ==
    [ok |-> TRUE,
     t |-> IF \E t \in Instants : IsoDateTime(t) = v
           THEN CHOOSE t \in Instants : IsoDateTime(t) = v
           ELSE MaxClock]

\* datetime.fromisoformat(v): the instant, or ValueError.
FromIsoFormat(v) ==
    IF \E t \in Instants : IsoDateTime(t) = v
    THEN [ok |-> TRUE, t |-> CHOOSE t \in Instants : IsoDateTime(t) = v]
    ELSE [ok |-> FALSE, t |-> 0]

\* json.dumps of a bool and of a list of platform ids
DumpBool(b) == IF b THEN "true" ELSE "false"
RECURSIVE JoinIds(_)
JoinIds(ids) ==
    IF ids = <<>> THEN ""
    ELSE IF Len(ids) = 1 THEN "\"" \o ids[1] \o "\""
    ELSE "\"" \o ids[1] \o "\", " \o JoinIds(Tail(ids))
DumpIds(ids) == "[" \o JoinIds(ids) \o "]"

\* The lists of ids a state file can hold; "tiktok" is no platform.
IdLists ==
    UNION { [1..n -> PlatformIds \cup {"tiktok"}] : n \in 0..MaxPlatformIds }
LoadIds(v) == CHOOSE ids \in IdLists : DumpIds(ids) = v

SessionKeys == <<"end_iso", "duration_minutes", "platform_ids", "locked">>

\* json.dumps(data) of the dict a session saves
SessionDumps(data) ==
    LET keys == SelectSeq(SessionKeys, LAMBDA key : key \in DOMAIN data) IN
    << [k |-> "{", v |-> ""] >>
    \o [i \in 1..Len(keys) |-> [k |-> keys[i], v |-> data[keys[i]]]]
    \o << [k |-> "}", v |-> ""] >>

\* json.loads(raw) of a state file: a dict of JSON texts, another JSON
\* value, or JSONDecodeError.
SessionLoads(raw) ==
    LET n == Len(raw)
        inner == IF n >= 2 THEN SubSeq(raw, 2, n - 1) ELSE <<>>
        keys == { inner[i].k : i \in 1..Len(inner) }
        value(key) == (CHOOSE i \in 1..Len(inner) : inner[i].k = key)
    IN IF /\ n >= 2 /\ raw[1].k = "{" /\ raw[n].k = "}"
          /\ \A i \in 1..Len(inner) :
                inner[i].k \in { SessionKeys[j] : j \in 1..Len(SessionKeys) }
          /\ Cardinality(keys) = Len(inner)
       THEN [kind |-> "object", obj |-> [key \in keys |-> inner[value(key)].v]]
       ELSE IF n >= 2 /\ raw[1].k = "[" /\ raw[n].k = "]"
       THEN [kind |-> "array", obj |-> <<>>]
       ELSE [kind |-> "error", obj |-> <<>>]

\* _save_blackout_state(end_time, duration, locked)
SaveBlackoutState(end_time, duration, locked) ==
    SessionDumps([end_iso |-> IsoDateTime(end_time),
                  duration_minutes |-> ToString(duration),
                  locked |-> DumpBool(locked)])

\* What write_text or unlink of the blackout's state file comes to.
StateWrites == {"ok", "oserror"}

\* _save_blackout_state as start() calls it: any exception is logged and the
\* file stays as it was.
SaveBlackoutStateTo(file, end_time, duration, locked, o) ==
    IF o = "ok" THEN SaveBlackoutState(end_time, duration, locked) ELSE file

\* _clear_blackout_state and _clear_state: unlink(missing_ok=True)
ClearStateKept(file) == file
ClearState(file) == NoFile

\* What reading a state file gives: raised (any Exception), or end_time and
\* the values data.get finds, absent keys taking the defaults.
ReadState(file) ==
    LET parsed == SessionLoads(file)
        obj == parsed.obj
        end == IF parsed.kind = "object" /\ "end_iso" \in DOMAIN obj
               THEN FromIsoFormat(obj["end_iso"])
               ELSE [ok |-> FALSE, t |-> 0]
    IN IF parsed.kind # "object" \/ ~end.ok
       THEN [raised |-> TRUE, end_time |-> 0, locked |-> FALSE, platform_ids |-> <<>>]
       ELSE [raised |-> FALSE,
             end_time |-> end.t,
             locked |-> IF "locked" \in DOMAIN obj
                        THEN obj["locked"] = "true" ELSE FALSE,
             platform_ids |-> IF "platform_ids" \in DOMAIN obj
                              THEN LoadIds(obj["platform_ids"]) ELSE <<>>]

None == <<>>

\* A loader that resumes whatever time is left.
LoadPersistedBlackoutAnyTime(file, t) ==
    LET data == ReadState(file) IN
    IF file = NoFile THEN [ret |-> None, file |-> file]
    ELSE IF data.raised THEN [ret |-> None, file |-> ClearState(file)]
    ELSE [ret |-> <<Max(1, (data.end_time - t) \div 60), data.locked>>,
          file |-> file]

\* A loader that counts a started minute as a whole one.
LoadPersistedBlackoutRoundedUp(file, t) ==
    LET data == ReadState(file)
        remaining_secs == data.end_time - t
    IN IF file = NoFile THEN [ret |-> None, file |-> file]
       ELSE IF data.raised THEN [ret |-> None, file |-> ClearState(file)]
       ELSE IF remaining_secs > 60
       THEN [ret |-> <<(remaining_secs + 59) \div 60, data.locked>>,
             file |-> file]
       ELSE [ret |-> None, file |-> ClearState(file)]

\* load_persisted_blackout(): what it returns and the file it leaves.
\* int() of a quotient above 1 is its whole part.
LoadPersistedBlackout(file, t) ==
    LET data == ReadState(file)
        remaining_secs == data.end_time - t
    IN IF file = NoFile THEN [ret |-> None, file |-> file]
       ELSE IF data.raised THEN [ret |-> None, file |-> ClearState(file)]
       ELSE IF remaining_secs > 60
       THEN [ret |-> <<Max(1, remaining_secs \div 60), data.locked>>,
             file |-> file]
       ELSE [ret |-> None, file |-> ClearState(file)]

SessionFrame == UNCHANGED <<hostsVars, writerVars, lockVars, fwVars, usageVars, taskVars>>

\* Time passes, whether the process runs or not.
elapse ==
    \E d \in Elapses :
        /\ clock + d <= MaxClock
        /\ clock' = clock + d
        /\ UNCHANGED <<process, blackout_state, web_block_state, blackout,
                       section, sessions, slog>>
        /\ SessionFrame

\* The process is killed: its objects are gone, the files stay.
crash ==
    /\ process # {}
    /\ process' = {}
    /\ blackout' = NoBlackout
    /\ section' = NoSection
    /\ sessions' = [id \in PlatformIds |-> NoPlatformSession]
    /\ slog' = [NoSessionCall EXCEPT !.op = "crash"]
    /\ UNCHANGED <<clock, blackout_state, web_block_state>>
    /\ SessionFrame

\* A starting process creates its ScreenBlackout and asks for a persisted one.
load_persisted_blackout ==
    LET result == LoadPersistedBlackout(blackout_state, clock) IN
    /\ "blackout" \notin process
    /\ process' = process \cup {"blackout"}
    /\ blackout_state' = result.file
    /\ blackout' = NoBlackout
    /\ slog' = [op |-> "load_persisted_blackout", ret |-> result.ret,
                raised |-> FALSE, found |-> blackout_state]
    /\ UNCHANGED <<clock, web_block_state, section, sessions>>
    /\ SessionFrame

\* The minutes a blackout is started with: the user's, or the loader's.
StartMinutes == {1, 9, 10}

\* The overlays of start(): one for each monitor.
Monitors == {1, 2}

\* stop(force): Lock Mode denies every request that is not forced.
StopDeniedNever(bo, force) == FALSE
StopDenied(bo, force) == bo.is_locked /\ ~force

\* _clear_blackout_state(): an exception of unlink is passed over.
ClearBlackoutState(file, o) == IF o = "ok" THEN ClearState(file) ELSE file

\* ScreenBlackout.stop(force): the blackout and its state file afterwards.
Stop(bo, file, force, o) ==
    IF StopDenied(bo, force) THEN [blackout |-> bo, file |-> file]
    ELSE [blackout |-> NoBlackout, file |-> ClearBlackoutState(file, o)]

\* ScreenBlackout.remaining_seconds
RemainingSeconds(bo, t) ==
    IF ~bo.is_active \/ bo.end_time = -1 THEN 0 ELSE Max(0, bo.end_time - t)

\* ScreenBlackout._update_timer(): stops at expiry, else comes back in 1 s.
UpdateTimer(bo, file, t, o) ==
    IF ~bo.is_active THEN [blackout |-> [bo EXCEPT !.timer_id = FALSE], file |-> file]
    ELSE IF RemainingSeconds(bo, t) <= 0 THEN Stop(bo, file, TRUE, o)
    ELSE [blackout |-> [bo EXCEPT !.timer_id = TRUE], file |-> file]

\* ScreenBlackout.start(minutes, locked), its first _update_timer included:
\* the blackout and its state file afterwards.
Start(bo, file, minutes, locked, monitors, t, o) ==
    LET started == [is_active |-> TRUE, is_locked |-> locked,
                    end_time |-> t + 60 * minutes,
                    overlays |-> monitors, timer_id |-> FALSE]
        saved == SaveBlackoutStateTo(file, started.end_time, minutes, locked, o)
    IN IF bo.is_active THEN [blackout |-> bo, file |-> file]
       ELSE UpdateTimer(started, saved, t, "ok")

\* The user starts a blackout.
blackout_start ==
    \E minutes \in StartMinutes, locked \in BOOLEAN, monitors \in Monitors,
       o \in StateWrites :
        LET result == Start(blackout, blackout_state, minutes, locked,
                            monitors, clock, o)
        IN /\ "blackout" \in process
           /\ clock + 60 * minutes <= MaxClock
           /\ blackout' = result.blackout
           /\ blackout_state' = result.file
           /\ slog' = [op |-> "start", ret |-> <<minutes, locked>>,
                       raised |-> FALSE, found |-> NoFile]
           /\ UNCHANGED <<clock, process, web_block_state, section, sessions>>
           /\ SessionFrame

\* A request to stop the blackout, never forced.
blackout_stop ==
    \E o \in StateWrites :
    LET result == Stop(blackout, blackout_state, FALSE, o) IN
    /\ "blackout" \in process
    /\ blackout' = result.blackout
    /\ blackout_state' = result.file
    /\ slog' = [op |-> "stop", ret |-> None, raised |-> FALSE, found |-> NoFile]
    /\ UNCHANGED <<clock, process, web_block_state, section, sessions>>
    /\ SessionFrame

\* The timer callback of an active blackout.
update_timer ==
    \E o \in StateWrites :
    LET result == UpdateTimer(blackout, blackout_state, clock, o) IN
    /\ "blackout" \in process
    /\ blackout.timer_id
    /\ blackout' = result.blackout
    /\ blackout_state' = result.file
    /\ slog' = [op |-> "update_timer", ret |-> None, raised |-> FALSE,
                found |-> NoFile]
    /\ UNCHANGED <<clock, process, web_block_state, section, sessions>>
    /\ SessionFrame

\* The state files a process can find when it starts.
NoEndIso == SessionDumps([locked |-> "true"])
BadTimestamp ==
    SessionDumps([end_iso |-> "tomorrow", platform_ids |-> DumpIds(<<"instagram">>),
                  locked |-> "true"])
MalformedStates == {NotJson, JsonArray, NoEndIso, BadTimestamp}
InitEnds == {0, 60, 90, 570, 600}
BlackoutStates ==
    { SaveBlackoutState(end, 10, locked) : end \in InitEnds, locked \in BOOLEAN }

InitBlackout ==
    /\ InitHosts(0, 0)
    /\ WriterIdle
    /\ LockIdle
    /\ FwIdle
    /\ UsageIdle
    /\ TaskIdle
    /\ clock = 0
    /\ process = {}
    /\ blackout_state \in {NoFile} \cup BlackoutStates \cup MalformedStates
    /\ web_block_state = NoFile
    /\ blackout = NoBlackout
    /\ section = NoSection
    /\ sessions = [id \in PlatformIds |-> NoPlatformSession]
    /\ slog = NoSessionCall

NextBlackout ==
    \/ elapse
    \/ crash
    \/ load_persisted_blackout
    \/ blackout_start
    \/ blackout_stop
    \/ update_timer

SpecBlackout == InitBlackout /\ [][NextBlackout]_vars

(***************************************************************************)
(* The web-block session of the control panel and the platform sessions of *)
(* the tray.  Both call the hosts manager; each call has its own outcome.  *)
(***************************************************************************)
\* The outcomes that differ in what a call leaves when a backup exists.
HostsOutcomes ==
    { o \in Outcomes :
        /\ o.read # "OSError"
        /\ ~o.copied
        /\ o.written # "fallback" }

\* The same, for a call whose return value is not looked at.
WriteOutcomes == { o \in HostsOutcomes : o.read = "ok" }

\* The hosts file and its backup after a call that writes content.
HostsCall(files, content, o) ==
    IF o.read = "ok"
    THEN [hosts |-> WriteHostsFile(files.hosts, content, o.written),
          backup |-> EnsureHostsBackup(files.backup, files.hosts, o.copied)]
    ELSE files

Blocked(files, platform, o) ==
    HostsCall(files, BlockContent(files.hosts, platform), o)
Unblocked(files, platform, o) ==
    HostsCall(files, UnblockContent(files.hosts, platform), o)

\* for platform in platforms: hosts_manager.unblock_platform(platform)
RECURSIVE UnblockEach(_, _, _)
UnblockEach(files, platforms, os) ==
    IF platforms = <<>> THEN files
    ELSE UnblockEach(Unblocked(files, Head(platforms), Head(os)),
                     Tail(platforms), Tail(os))

\* for platform in selected: hosts_manager.block_platform(platform)
RECURSIVE BlockEach(_, _, _)
BlockEach(files, platforms, os) ==
    IF platforms = <<>> THEN files
    ELSE BlockEach(Blocked(files, Head(platforms), Head(os)),
                   Tail(platforms), Tail(os))

PlatformOf(id) == CHOOSE platform \in ALL_PLATFORMS : platform.id = id
PlatformsOf(ids) == [i \in 1..Len(ids) |-> PlatformOf(ids[i])]

\* WebBlockSection._save_state()
SaveState(s) ==
    SessionDumps([end_iso |-> IsoDateTime(s.session_end),
                  platform_ids |-> DumpIds(s.blocked_platforms),
                  locked |-> DumpBool(s.session_locked)])

\* The section, its state file and the hosts files after a handler that
\* called the hosts manager n times.
After(s, file, files, n) ==
    [section |-> s, file |-> file, files |-> files, calls |-> n]

\* A stop that lets every request through.
StopSessionUnlocked(s, file, files, t, force, os) ==
    After(NoSection, ClearState(file),
          UnblockEach(files, PlatformsOf(s.blocked_platforms), os),
          Len(s.blocked_platforms))

\* WebBlockSection._stop_session(force)
StopSession(s, file, files, t, force, os) ==
    IF s.session_locked /\ ~force /\ s.session_end # -1 /\ t < s.session_end
    THEN After(s, file, files, 0)
    ELSE After(NoSection, ClearState(file),
               UnblockEach(files, PlatformsOf(s.blocked_platforms), os),
               Len(s.blocked_platforms))

\* WebBlockSection._tick_timer()
TickTimer(s, file, files, t, os) ==
    IF ~s.session_active \/ s.session_end = -1
    THEN After([s EXCEPT !.timer_id = FALSE], file, files, 0)
    ELSE IF s.session_end - t <= 0 THEN StopSession(s, file, files, t, TRUE, os)
    ELSE After([s EXCEPT !.timer_id = TRUE], file, files, 0)

\* A restore that takes a session of a minute or less for an expired one.
RestoreSessionMinute(file, files, t, os) ==
    LET data == ReadState(file)
        ids == SelectSeq(data.platform_ids, LAMBDA id : id \in PlatformIds)
        resumed == [session_active |-> TRUE, session_locked |-> data.locked,
                    session_end |-> data.end_time, blocked_platforms |-> ids,
                    timer_id |-> FALSE]
    IN IF file = NoFile THEN After(NoSection, file, files, 0)
       ELSE IF data.raised \/ ids = <<>>
       THEN After(NoSection, ClearState(file), files, 0)
       ELSE IF data.end_time - t <= 60
       THEN After(NoSection, ClearState(file),
                  UnblockEach(files, PlatformsOf(ids), os), Len(ids))
       ELSE TickTimer(resumed, file, files, t, os)

\* WebBlockSection._restore_session()
RestoreSession(file, files, t, os) ==
    LET data == ReadState(file)
        ids == SelectSeq(data.platform_ids, LAMBDA id : id \in PlatformIds)
        resumed == [session_active |-> TRUE, session_locked |-> data.locked,
                    session_end |-> data.end_time, blocked_platforms |-> ids,
                    timer_id |-> FALSE]
    IN IF file = NoFile THEN After(NoSection, file, files, 0)
       ELSE IF data.raised \/ ids = <<>>
       THEN After(NoSection, ClearState(file), files, 0)
       ELSE IF data.end_time - t <= 0
       THEN After(NoSection, ClearState(file),
                  UnblockEach(files, PlatformsOf(ids), os), Len(ids))
       ELSE TickTimer(resumed, file, files, t, os)

\* The platforms ticked in the panel, in the order of ALL_PLATFORMS.
Selections == { <<"instagram">>, <<"instagram", "youtube">> }
Durations == {5}
\* One outcome for each call of the hosts manager.
OutcomeLists(ids) == [1..Len(ids) -> HostsOutcomes]
WriteOutcomeLists(ids) == [1..Len(ids) -> WriteOutcomes]

\* WebBlockSection._start_session() with a valid duration and a selection.
StartSession(selected, duration, locked, files, t, os) ==
    LET blocked_count ==
            Cardinality({ i \in 1..Len(selected) : Returned(os[i]) })
        after == BlockEach(files, PlatformsOf(selected), os)
        started == [session_active |-> TRUE, session_locked |-> locked,
                    session_end |-> t + 60 * duration,
                    blocked_platforms |-> selected, timer_id |-> FALSE]
    IN IF blocked_count = 0 THEN [section |-> NoSection, saved |-> FALSE, files |-> after]
       ELSE [section |-> [started EXCEPT !.timer_id = TRUE], saved |-> TRUE,
             files |-> after]

HostsFiles == [hosts |-> hosts, backup |-> backup]

\* What a handler of the section leaves.
SectionStep(op, result) ==
    /\ section' = result.section
    /\ web_block_state' = result.file
    /\ hosts' = result.files.hosts
    /\ backup' = result.files.backup
    /\ calls + result.calls <= limit
    /\ calls' = calls + result.calls
    /\ slog' = [op |-> op, ret |-> None, raised |-> FALSE,
                found |-> IF op = "restore_session" THEN web_block_state ELSE NoFile]
    /\ UNCHANGED <<clock, blackout_state, blackout, sessions>>
    /\ UNCHANGED <<user_blocks, log, limit, writerVars, lockVars, fwVars,
                   usageVars, taskVars>>

\* A starting process builds the control panel: WebBlockSection.__init__.
restore_session ==
    /\ "section" \notin process
    /\ \E os \in WriteOutcomeLists(ReadState(web_block_state).platform_ids) :
        /\ process' = process \cup {"section"}
        /\ SectionStep("restore_session",
                       RestoreSession(web_block_state, HostsFiles, clock, os))

\* The action button: _toggle_session() with no session active.
start_session ==
    \E selected \in Selections, duration \in Durations, locked \in BOOLEAN :
      \E os \in OutcomeLists(selected) :
        LET result == StartSession(selected, duration, locked, HostsFiles, clock, os) IN
        /\ "section" \in process
        /\ ~section.session_active
        /\ clock + 60 * duration <= MaxClock
        /\ UNCHANGED process
        /\ SectionStep("start_session",
                       [section |-> result.section,
                        file |-> IF result.saved THEN SaveState(result.section)
                                 ELSE web_block_state,
                        files |-> result.files, calls |-> Len(selected)])

\* The action button: _toggle_session() with a session active.
stop_session ==
    /\ "section" \in process
    /\ section.session_active
    /\ \E os \in WriteOutcomeLists(section.blocked_platforms) :
        /\ UNCHANGED process
        /\ SectionStep("stop_session",
                       StopSession(section, web_block_state, HostsFiles, clock, FALSE, os))

\* The timer callback of the section.
tick_timer ==
    /\ "section" \in process
    /\ section.timer_id
    /\ \E os \in WriteOutcomeLists(section.blocked_platforms) :
        /\ UNCHANGED process
        /\ SectionStep("tick_timer",
                       TickTimer(section, web_block_state, HostsFiles, clock, os))

\* PlatformSession.start(): the session, the hosts files and the ledger.
PlatformStart(ps, platform, files, ledger, t, o, lo, written) ==
    LET reached == IsLimitReached(platform, ledger, t, lo)
        counted == IncrementSessionCount(ledger, t, lo, written)
        unblocked == Unblocked(files, platform, o)
    IN IF reached.raised
       THEN [session |-> ps, files |-> files, ledger |-> ledger, raised |-> TRUE,
             calls |-> 0]
       ELSE IF reached.ret = 1
       THEN [session |-> ps, files |-> files, ledger |-> ledger, raised |-> FALSE,
             calls |-> 0]
       ELSE IF ps.running
       THEN [session |-> [ps EXCEPT !.paused = FALSE], files |-> unblocked,
             ledger |-> ledger, raised |-> FALSE, calls |-> 1]
       ELSE [session |-> [running |-> TRUE, paused |-> FALSE],
             files |-> unblocked, ledger |-> counted.file,
             raised |-> counted.raised, calls |-> 1]

\* A timer thread at the head of its loop, last_tick just read.
NewTimer(tm) == [pc |-> "head", last_tick |-> tm.mono, since |-> tm.mono]

\* start() that has begun a session and not raised: the stop event is
\* cleared and a timer thread started.  The event is cleared too when
\* increment_session_count raises.
StartTimer(tm, platform, ps, result) ==
    IF ps.running \/ ~result.session.running THEN tm
    ELSE [tm EXCEPT
            !.stop_event[platform.id] = FALSE,
            !.threads[platform.id] = IF result.raised THEN @
                                     ELSE Append(@, NewTimer(tm))]

\* stop(): self._stop_event.set()
StopTimer(tm, platform) == [tm EXCEPT !.stop_event[platform.id] = TRUE]

\* What a handler of a platform session leaves.
PlatformStep(op, platform, ps, tm, files, ledger, raised, n) ==
    /\ sessions' = [sessions EXCEPT ![platform.id] = ps]
    /\ timers' = tm
    /\ hosts' = files.hosts
    /\ backup' = files.backup
    /\ usage_file' = [usage_file EXCEPT ![platform.id] = ledger]
    /\ slog' = [op |-> op, ret |-> None, raised |-> raised, found |-> NoFile]
    /\ UNCHANGED <<clock, process, blackout_state, web_block_state, blackout,
                   section>>
    /\ calls + n <= limit
    /\ calls' = calls + n
    /\ UNCHANGED <<user_blocks, log, limit, tmp, w, lockVars, fwVars,
                   usageVars, scheduler, tasks>>

\* The tray menu item "Iniciar", shown while the session is stopped or paused.
platform_start(platform) ==
    LET ps == sessions[platform.id] IN
    /\ "section" \in process
    /\ ~ps.running \/ ps.paused
    /\ ps.running \/ Len(timers.threads[platform.id]) < MaxTimerThreads
    /\ \E o \in WriteOutcomes, lo \in LoadOutcomes,
          written \in IF ps.running THEN {"written"} ELSE SaveOutcomes :
         \E result \in {PlatformStart(ps, platform, HostsFiles,
                                     usage_file[platform.id], now, o, lo, written)} :
            /\ WithinBounds([file |-> result.ledger])
            /\ PlatformStep("platform_start", platform, result.session,
                            StartTimer(timers, platform, ps, result),
                            result.files, result.ledger, result.raised,
                            result.calls)

\* The tray menu item "Pausar", shown while the session runs.
platform_pause(platform) ==
    LET ps == sessions[platform.id] IN
    /\ "section" \in process
    /\ ps.running /\ ~ps.paused
    /\ \E o \in WriteOutcomes :
         PlatformStep("platform_pause", platform, [ps EXCEPT !.paused = TRUE],
                      timers, Blocked(HostsFiles, platform, o),
                      usage_file[platform.id], FALSE, 1)

\* PlatformSession.stop(), called for a running or paused session.
platform_stop(platform) ==
    LET ps == sessions[platform.id] IN
    /\ "section" \in process
    /\ ps.running
    /\ \E o \in WriteOutcomes :
         PlatformStep("platform_stop", platform, NoPlatformSession,
                      StopTimer(timers, platform), Blocked(HostsFiles, platform, o),
                      usage_file[platform.id], FALSE, 1)

\* The hosts file a starting process finds: the platforms in it are blocked.
BaseHosts == <<Text("a"), NL>>
BlockedHosts ==
    { BaseHosts, BlockContent(BaseHosts, INSTAGRAM),
      BlockContent(BlockContent(BaseHosts, INSTAGRAM), YOUTUBE) }

WebBlockStates ==
    { SessionDumps([end_iso |-> IsoDateTime(end), platform_ids |-> DumpIds(ids),
                    locked |-> DumpBool(locked)]) :
        end \in {0, 60, 600}, locked \in BOOLEAN,
        ids \in { <<"instagram">>, <<"instagram", "youtube">>, <<"tiktok">> } }

\* The files of a session, with no process running, at 04:00:00.
InitSession(hostsTexts, blackoutStates, webBlockStates) ==
    /\ hosts \in hostsTexts
    /\ backup = BaseHosts
    /\ user_blocks = <<>>
    /\ log = NoCall
    /\ calls = 0
    /\ limit = MaxCalls
    /\ WriterIdle
    /\ LockIdle
    /\ FwIdle
    /\ UsageIdle
    /\ TaskIdle
    /\ clock = 0
    /\ process = {}
    /\ blackout_state \in blackoutStates
    /\ web_block_state \in webBlockStates
    /\ blackout = NoBlackout
    /\ section = NoSection
    /\ sessions = [id \in PlatformIds |-> NoPlatformSession]
    /\ slog = NoSessionCall

\* A process starting on any state files, with every platform blocked.
AllBlocked == BlockContent(BlockContent(BaseHosts, INSTAGRAM), YOUTUBE)
InitRestore ==
    InitSession({AllBlocked},
                {NoFile} \cup BlackoutStates \cup MalformedStates,
                {NoFile} \cup WebBlockStates \cup MalformedStates)

NextRestore ==
    \/ elapse
    \/ crash
    \/ load_persisted_blackout
    \/ restore_session

SpecRestore == InitRestore /\ [][NextRestore]_vars

\* The control panel and the tray of a process that found no state file.
InitWebBlock == InitSession(BlockedHosts, {NoFile}, {NoFile})

NextWebBlock ==
    \/ elapse
    \/ crash
    \/ restore_session
    \/ start_session
    \/ stop_session
    \/ tick_timer
    \/ \E platform \in ALL_PLATFORMS : platform_start(platform)
    \/ \E platform \in ALL_PLATFORMS : platform_pause(platform)
    \/ \E platform \in ALL_PLATFORMS : platform_stop(platform)

SpecWebBlock == InitWebBlock /\ [][NextWebBlock]_vars

(***************************************************************************)
(* verify_permanent_blocks, and the permanent section on any text: the     *)
(* texts hold lines of the permanent section, of a platform's section and  *)
(* unrelated entries, and permanent_blocks.json holds stored entries.      *)
(***************************************************************************)
\* "marker_start in content" of verify_permanent_blocks
VerifyPresent(content) == InText(MarkerStart(PERMANENT_BLOCK_TAG), content)

\* verify_permanent_blocks: its own read raises (return False), the marker is
\* there (return True), or it returns what block_permanent_domains returns.
verify_permanent_blocks ==
    /\ calls < limit
    /\ \/ /\ log' = [op |-> "verify", tag |-> PERMANENT_BLOCK_TAG, ret |-> FALSE,
                     wrote |-> FALSE, before |-> hosts]
          /\ calls' = calls + 1
          /\ UNCHANGED <<hosts, backup, user_blocks, limit, writerVars, lockVars,
                         fwVars, usageVars, sessionVars, taskVars>>
       \/ /\ VerifyPresent(hosts)
          /\ log' = [op |-> "verify", tag |-> PERMANENT_BLOCK_TAG, ret |-> TRUE,
                     wrote |-> FALSE, before |-> hosts]
          /\ calls' = calls + 1
          /\ UNCHANGED <<hosts, backup, user_blocks, limit, writerVars, lockVars,
                         fwVars, usageVars, sessionVars, taskVars>>
       \/ /\ ~VerifyPresent(hosts)
          /\ \E o \in Outcomes :
               Mutate("verify", PERMANENT_BLOCK_TAG,
                      PermanentContent(hosts, GetAllPermanentDomains(user_blocks)), o)

PermanentInitLines ==
    { <<>>, <<Text("a")>>, <<Redirect("x.com")>>,
      <<MarkerStart(PERMANENT_BLOCK_TAG)>>, <<MarkerEnd(PERMANENT_BLOCK_TAG)>>,
      <<marker_start(INSTAGRAM)>>, <<marker_end(INSTAGRAM)>> }

PermanentInitTexts ==
    { JoinLines(ls) \o tl :
        ls \in UNION { [1..k -> PermanentInitLines] : k \in 0..MaxRemoveLines },
        tl \in {<<>>, <<NL>>} }

\* Stored entries: none, one, and one repeating a built-in domain.
StoredBlocks ==
    { <<>>,
      <<[label |-> "X", domains |-> <<"x.com", "www.x.com">>]>>,
      <<[label |-> "X", domains |-> <<"x.com">>],
        [label |-> "Mine", domains |-> <<"instagram.com", "x.com">>]>> }

InitPermanent ==
    /\ hosts \in PermanentInitTexts
    /\ backup = NoFile
    /\ user_blocks \in StoredBlocks
    /\ log = NoCall
    /\ calls = 0
    /\ limit = 1
    /\ Idle

NextPermanent ==
    \/ verify_permanent_blocks
    \/ block_permanent_domains
    \/ \E platform \in ALL_PLATFORMS : block_platform(platform)
    \/ \E platform \in ALL_PLATFORMS : unblock_platform(platform)

SpecPermanent == InitPermanent /\ [][NextPermanent]_vars

(***************************************************************************)
(* The permanent-block handlers of the web-block section: _add_permanent   *)
(* and _remove_permanent store the entries (add_block, remove_block) and   *)
(* re-apply the permanent section through get_all_permanent_domains.       *)
(* saved: whether save_user_blocks wrote the file (its failure is logged). *)
(***************************************************************************)
Labels == {"X", "Mine", "Z"}

\* What _add_custom_permanent can pass: a repeated domain, a built-in one.
DomainLists ==
    { <<"x.com">>, <<"x.com", "x.com">>, <<"instagram.com", "x.com">>,
      <<"y.com", "x.com">> }

\* blocks after add_block(label, domains)
AddBlock(blocks, label, domains) ==
    Append(blocks, [label |-> label, domains |-> domains])

\* blocks after remove_block(label)
RemoveBlock(blocks, label) ==
    SelectSeq(blocks, LAMBDA b : b.label # label)

\* save_user_blocks(blocks), then block_permanent_domains() with outcome o
RefreshPermanent(blocks, saved, o) ==
    LET stored == IF saved THEN blocks ELSE user_blocks IN
    /\ calls < limit
    /\ user_blocks' = stored
    /\ IF o.read = "ok"
       THEN /\ backup' = EnsureHostsBackup(backup, hosts, o.copied)
            /\ hosts' = WriteHostsFile(hosts,
                   PermanentContent(hosts, GetAllPermanentDomains(stored)),
                   o.written)
       ELSE UNCHANGED <<hosts, backup>>
    /\ log' = Logged("permanent", PERMANENT_BLOCK_TAG, o)
    /\ calls' = calls + 1
    /\ UNCHANGED <<limit, writerVars, lockVars, fwVars, usageVars, sessionVars, taskVars>>

add_permanent ==
    \E label \in Labels, domains \in DomainLists :
        /\ Len(user_blocks) < MaxEntries
        /\ label \notin { user_blocks[i].label : i \in 1..Len(user_blocks) }
        /\ \E saved \in BOOLEAN, o \in WriteOutcomes :
             RefreshPermanent(AddBlock(user_blocks, label, domains), saved, o)

\* The list shows one remove button for each stored entry.
remove_permanent ==
    \E i \in 1..Len(user_blocks), saved \in BOOLEAN, o \in WriteOutcomes :
        RefreshPermanent(RemoveBlock(user_blocks, user_blocks[i].label), saved, o)

InitDomains ==
    /\ hosts = BaseHosts
    /\ backup = BaseHosts
    /\ user_blocks = <<>>
    /\ log = NoCall
    /\ calls = 0
    /\ limit = MaxCalls + 1
    /\ Idle

NextDomains == add_permanent \/ remove_permanent

SpecDomains == InitDomains /\ [][NextDomains]_vars

(***************************************************************************)
(* Both rule groups in one process: the DNS lock and allowlist mode.       *)
(***************************************************************************)
\* is_dns_locked: "show rule name=..." succeeds when a rule of the name is
\* there and netsh answers in time; it changes nothing.
is_dns_locked ==
    /\ \/ UiCall("is_dns_locked", "locked_show")
       \/ /\ ui.pc = "locked_show"
          /\ \E ok \in BOOLEAN :
               ui' = [ui EXCEPT !.pc = "return",
                                !.ret = ok /\ rules[_DNS_RULE_NAME] > 0]
          /\ UNCHANGED rules
    /\ UNCHANGED AllowlistState
    /\ FwFrame

\* The process between two calls, in any state the rule table, the flag file
\* and allowlist mode can be in: the mode off (a refresh thread that outlived
\* the join may still run) or on with its refresh thread.
AllowlistModes ==
    { [active |-> FALSE, thread |-> 0, stop |-> st, loop |-> l] :
        st \in BOOLEAN, l \in {Dead, [pc |-> "apply", i |-> 1]} }
    \cup { [active |-> TRUE, thread |-> 1, stop |-> FALSE, loop |-> l] :
              l \in {[pc |-> "wait", i |-> 0], [pc |-> "apply", i |-> 1]} }

InitFirewall ==
    /\ hosts = <<>>
    /\ backup = NoFile
    /\ user_blocks = <<>>
    /\ log = NoCall
    /\ calls = 0
    /\ limit = 0
    /\ WriterIdle
    /\ LockIdle
    /\ UsageIdle
    /\ TaskIdle
    /\ SessionIdle
    /\ rules \in [RuleNames -> 0..1]
    /\ flag \in BOOLEAN
    /\ \E m \in AllowlistModes :
         /\ allowlist_active = m.active
         /\ allowlist_thread = m.thread
         /\ stop_event = m.stop
         /\ rt = [t \in RefreshThreads |-> IF t = 1 THEN m.loop ELSE Dead]
    /\ ui = [NoUi EXCEPT !.locked = BothDnsRules(rules)]

\* The main thread makes one call.
FirstCall == ui.pc = "idle" => ui.fn = "none"

NextFirewall ==
    \/ FirstCall /\ block_alternative_dns
    \/ FirstCall /\ unblock_alternative_dns
    \/ FirstCall /\ is_dns_locked
    \/ FirstCall /\ enable_allowlist_mode
    \/ FirstCall /\ disable_allowlist_mode
    \/ FirstCall /\ cleanup_orphaned_allowlist
    \/ \E t \in RefreshThreads : refresh_wait(t)
    \/ \E t \in RefreshThreads : refresh_apply(t)
    \/ ui_return

SpecFirewall == InitFirewall /\ [][NextFirewall]_vars

(***************************************************************************)
(* The schedule manager (src/core/scheduler.py).  Its thread checks the    *)
(* schedules every 60 seconds, a check in three steps: the date, the       *)
(* running blackout, the schedules under the lock; the calls of the main   *)
(* thread come between them.  Its two callbacks are the start and the      *)
(* is_active of the ScreenBlackout.  The clock is the one of the sessions: *)
(* second 0 is 04:00:00 of 2026-01-01, a Thursday.                         *)
(***************************************************************************)
\* A time text "HH:MM" as its parts around ":"; int tells whether int()
\* takes the part.
TimeText(h, m) == <<[int |-> TRUE, n |-> h], [int |-> TRUE, n |-> m]>>
NoTimeText == <<[int |-> FALSE, n |-> 0]>>

\* int(parts[0]) * 60 + int(parts[1]); -1 for ValueError and IndexError.
MinutesOf(text) ==
    IF Len(text) < 2 \/ ~text[1].int \/ ~text[2].int THEN -1
    ELSE text[1].n * 60 + text[2].n

\* The calendar days gone by at second t, then strftime("%Y-%m-%d"),
\* now.hour * 60 + now.minute and now.weekday(), 0 being Monday.
DaysGone(t) == (4 * 3600 + t) \div 86400
DateOf(t) == IsoFormat(1 + DaysGone(t))
CurrentMinutes(t) == ((4 * 3600 + t) \div 60) % 1440
Weekday(t) == (3 + DaysGone(t)) % 7

\* Schedule.is_active_now()
IsActiveNow(schedule, t) ==
    /\ schedule.enabled
    /\ Weekday(t) \in schedule.days
    /\ MinutesOf(schedule.start) # -1 /\ MinutesOf(schedule.end) # -1
    /\ MinutesOf(schedule.start) <= CurrentMinutes(t)
    /\ CurrentMinutes(t) < MinutesOf(schedule.end)

\* Schedule.remaining_minutes()
RemainingMinutes(schedule, t) ==
    IF MinutesOf(schedule.end) = -1 THEN 0
    ELSE Max(0, MinutesOf(schedule.end) - CurrentMinutes(t))

\* The schedules _load_schedules() finds: windows that overlap, and a
\* weekend, an end that is no time and a disabled schedule before a later
\* window.  The panel adds, removes and toggles none during a run.
ScheduleOf(id, days, start, end, enabled) ==
    [id |-> id, days |-> days, start |-> start, end |-> end, enabled |-> enabled]
Workdays == {0, 1, 2, 3, 4}
ScheduleLists ==
    { <<ScheduleOf("a", Workdays, TimeText(4, 0), TimeText(4, 5), TRUE),
        ScheduleOf("b", Workdays, TimeText(4, 0), TimeText(4, 10), TRUE)>>,
      <<ScheduleOf("a", {5, 6}, TimeText(4, 0), TimeText(4, 10), TRUE),
        ScheduleOf("b", Workdays, TimeText(4, 0), NoTimeText, TRUE),
        ScheduleOf("c", Workdays, TimeText(4, 0), TimeText(4, 10), FALSE),
        ScheduleOf("d", Workdays, TimeText(4, 5), TimeText(4, 10), TRUE)>> }

\* The schedules the loop of _check_schedules stops at: not triggered today,
\* active, with minutes left.
Due(sm, t) ==
    { i \in 1..Len(sm.schedules) :
        /\ sm.schedules[i].id \notin sm.triggered_today
        /\ IsActiveNow(sm.schedules[i], t)
        /\ RemainingMinutes(sm.schedules[i], t) > 0 }

First(due) == CHOOSE i \in due : \A j \in due : i <= j

ScheduleStep ==
    UNCHANGED <<hostsVars, writerVars, lockVars, fwVars, usageVars, clock,
                process, web_block_state, section, sessions, slog, tasks,
                timers>>

\* ScheduleManager.start(): the checking thread begins.
scheduler_start ==
    /\ scheduler.pc = "idle"
    /\ scheduler' = [scheduler EXCEPT !.pc = "date"]
    /\ UNCHANGED <<blackout, blackout_state>>
    /\ ScheduleStep

\* _check_schedules: the triggered set is emptied on a new day.
check_date ==
    LET today == DateOf(clock) IN
    /\ scheduler.pc = "date"
    /\ scheduler' =
         [scheduler EXCEPT
            !.triggered_today = IF today # scheduler.last_check_date THEN {} ELSE @,
            !.last_check_date = today,
            !.pc = "active"]
    /\ UNCHANGED <<blackout, blackout_state>>
    /\ ScheduleStep

\* _check_schedules: nothing is triggered while a blackout is active.
check_active ==
    /\ scheduler.pc = "active"
    /\ scheduler' = [scheduler EXCEPT
                       !.pc = IF blackout.is_active THEN "wait" ELSE "schedules"]
    /\ UNCHANGED <<blackout, blackout_state>>
    /\ ScheduleStep

\* _check_schedules: under the lock, the first schedule that is due is marked
\* and its blackout asked for.
check_schedules ==
    LET due == Due(scheduler, clock)
        schedule == scheduler.schedules[First(due)]
    IN /\ scheduler.pc = "schedules"
       /\ IF due = {}
          THEN /\ scheduler' = [scheduler EXCEPT !.pc = "wait"]
               /\ UNCHANGED <<blackout, blackout_state>>
          ELSE \E monitors \in Monitors, o \in StateWrites :
                 LET result == Start(blackout, blackout_state,
                                     RemainingMinutes(schedule, clock), FALSE,
                                     monitors, clock, o)
                 IN /\ scheduler' =
                         [scheduler EXCEPT
                            !.triggered_today = @ \cup {schedule.id},
                            !.fired = @ \cup {<<schedule.id, DateOf(clock)>>},
                            !.pc = "wait"]
                    /\ blackout' = result.blackout
                    /\ blackout_state' = result.file
       /\ ScheduleStep

\* _check_loop: the next check, _CHECK_INTERVAL_SECONDS later.
check_wait ==
    /\ scheduler.pc = "wait"
    /\ scheduler' = [scheduler EXCEPT !.pc = "date"]
    /\ UNCHANGED <<blackout, blackout_state>>
    /\ ScheduleStep

InitSchedule ==
    /\ InitHosts(0, 0)
    /\ WriterIdle
    /\ LockIdle
    /\ FwIdle
    /\ UsageIdle
    /\ SessionIdle
    /\ tasks = NoTasks
    /\ timers = NoTimers
    /\ \E schedules \in ScheduleLists :
         scheduler = [NoScheduler EXCEPT !.schedules = schedules]

NextSchedule ==
    \/ elapse
    \/ blackout_start
    \/ blackout_stop
    \/ update_timer
    \/ scheduler_start
    \/ check_date
    \/ check_active
    \/ check_schedules
    \/ check_wait

SpecSchedule == InitSchedule /\ [][NextSchedule]_vars

(***************************************************************************)
(* The task queue of the control panel (src/ui/control_panel.py).  The     *)
(* monitor runs on the main thread, one tick a second while the panel is   *)
(* shown; its callback is the start of the ScreenBlackout.                 *)
(***************************************************************************)
\* The minutes the user enters, and the presets of the panel scaled to the
\* clock.
WaitMinutes == {0, 5}
TaskMinutes == {5}
BreakMinutes == {0, 5}

Task(trigger_ts, duration, locked) ==
    [trigger_ts |-> trigger_ts, duration |-> duration, locked |-> locked,
     active |-> TRUE]

TaskStep ==
    UNCHANGED <<hostsVars, writerVars, lockVars, fwVars, usageVars, clock,
                process, web_block_state, section, sessions, slog, scheduler,
                timers>>

\* _add_timer_task(): a blackout in wait minutes, for duration minutes.
add_timer_task ==
    \E wait \in WaitMinutes, duration \in TaskMinutes, locked \in BOOLEAN :
        /\ Len(tasks.scheduled_tasks) < MaxTasks
        /\ tasks' = [tasks EXCEPT
                       !.scheduled_tasks =
                           Append(@, Task(clock + 60 * wait, duration, locked))]
        /\ UNCHANGED <<blackout, blackout_state>>
        /\ TaskStep

\* _add_preset(work_minutes, break_minutes): the work blackout now, the
\* break, never locked, when the work period ends.
add_preset ==
    \E work_minutes \in TaskMinutes, break_minutes \in BreakMinutes,
       locked \in BOOLEAN :
        LET work == <<Task(clock, work_minutes, locked)>>
            break == IF break_minutes > 0
                     THEN <<Task(clock + 60 * work_minutes, break_minutes, FALSE)>>
                     ELSE <<>>
        IN /\ Len(tasks.scheduled_tasks) + 2 <= MaxTasks
           /\ tasks' = [tasks EXCEPT !.scheduled_tasks = @ \o work \o break]
           /\ UNCHANGED <<blackout, blackout_state>>
           /\ TaskStep

\* The tasks a tick triggers: active, their trigger time reached.
Triggered(queue, t) ==
    SelectSeq(queue, LAMBDA task : task.active /\ t >= task.trigger_ts)

\* on_start_blackout(duration, locked) for each triggered task in turn.
RECURSIVE StartEach(_, _, _, _, _)
StartEach(due, bo, file, t, o) ==
    IF due = <<>> THEN [blackout |-> bo, file |-> file]
    ELSE LET result == Start(bo, file, due[1].duration, due[1].locked, 1, t, o)
         IN StartEach(Tail(due), result.blackout, result.file, t, o)

\* _start_task_monitor(): a tick.  Triggered tasks are switched off and
\* purged.
task_monitor ==
    \E o \in StateWrites :
        LET due == Triggered(tasks.scheduled_tasks, clock)
            result == StartEach(due, blackout, blackout_state, clock, o)
        IN /\ \A i \in 1..Len(due) : clock + 60 * due[i].duration <= MaxClock
           /\ tasks' =
                [scheduled_tasks |->
                     SelectSeq(tasks.scheduled_tasks,
                               LAMBDA task : ~(task.active /\ clock >= task.trigger_ts)),
                 fired |-> due]
           /\ blackout' = result.blackout
           /\ blackout_state' = result.file
           /\ TaskStep

InitTasks ==
    /\ InitHosts(0, 0)
    /\ WriterIdle
    /\ LockIdle
    /\ FwIdle
    /\ UsageIdle
    /\ SessionIdle
    /\ TaskIdle

NextTasks ==
    \/ elapse
    \/ blackout_stop
    \/ update_timer
    \/ add_timer_task
    \/ add_preset
    \/ task_monitor

SpecTasks == InitTasks /\ [][NextTasks]_vars

(***************************************************************************)
(* The timer thread of a PlatformSession (src/ui/tray.py).  Time is        *)
(* time.monotonic() in steps of Quantum, which stand for the one second of *)
(* _stop_event.wait: every thread that waits wakes once in a step.  An     *)
(* iteration, from the wake to the head of the loop, is one step; the      *)
(* handlers of the main thread come between the iterations.                *)
(***************************************************************************)
\* The sequence without its i-th element.
Without(seq, i) == SubSeq(seq, 1, i - 1) \o SubSeq(seq, i + 1, Len(seq))

\* while not self._stop_event.is_set(): the thread ends or goes to wait.
timer_head(platform, i) ==
    LET id == platform.id
        thread == timers.threads[id][i]
    IN /\ thread.pc = "head"
       /\ timers' =
            [timers EXCEPT
               !.threads[id] =
                   IF timers.stop_event[id] THEN Without(@, i)
                   ELSE [@ EXCEPT ![i] = [thread EXCEPT !.pc = "wait",
                                                        !.since = timers.mono]]]
       /\ UNCHANGED <<sessions, hosts, backup, usage_file, slog, calls>>
       /\ UNCHANGED <<clock, process, blackout_state, web_block_state, blackout,
                      section>>
       /\ UNCHANGED <<user_blocks, log, limit, tmp, w, lockVars, fwVars,
                      usageVars, scheduler, tasks>>

\* One iteration of _timer_loop after the wait: the session, the timers, the
\* hosts files and the ledger it leaves.  ended: the thread is over, by a
\* return or by an exception of the usage tracker.
TimerIteration(ps, tm, platform, i, files, ledger, t, lo, written, lo2, o) ==
    LET id == platform.id
        thread == tm.threads[id][i]
        elapsed == tm.mono - thread.last_tick
        ticked == [thread EXCEPT !.pc = "head", !.last_tick = tm.mono]
        added == AddUsage(ledger, t, elapsed, lo, written)
        remaining == GetRemainingSeconds(platform, added.file, t, lo2)
        same == [session |-> ps, files |-> files, ledger |-> ledger, calls |-> 0]
        over == [tm EXCEPT !.threads[id] = Without(@, i)]
        counted == [tm EXCEPT !.counted[id] = Max(@, tm.mono)]
    IN IF ~ps.running THEN same @@ [timers |-> over]
       ELSE IF ps.paused
       THEN same @@ [timers |-> [tm EXCEPT !.threads[id][i] = ticked]]
       ELSE IF added.raised THEN same @@ [timers |-> over]
       ELSE IF remaining.raised
       THEN [same EXCEPT !.ledger = added.file]
            @@ [timers |-> [counted EXCEPT !.threads[id] = Without(@, i)]]
       ELSE IF remaining.ret <= 0
       THEN [session |-> NoPlatformSession,
             files |-> Blocked(files, platform, o),
             ledger |-> added.file, calls |-> 1,
             timers |-> [StopTimer(counted, platform) EXCEPT
                           !.threads[id] = Without(@, i)]]
       ELSE [same EXCEPT !.ledger = added.file]
            @@ [timers |-> [counted EXCEPT !.threads[id][i] = ticked]]

\* The thread wakes, by the timeout or by the stop event, and runs an
\* iteration.
timer_loop(platform, i) ==
    LET id == platform.id
        thread == timers.threads[id][i]
    IN /\ thread.pc = "wait"
       /\ timers.mono > thread.since \/ timers.stop_event[id]
       /\ \E lo \in LoadOutcomes, written \in SaveOutcomes, lo2 \in LoadOutcomes,
             o \in WriteOutcomes :
            \E result \in {TimerIteration(sessions[id], timers, platform, i,
                                         HostsFiles, usage_file[id], now,
                                         lo, written, lo2, o)} :
               /\ WithinBounds([file |-> result.ledger])
               /\ PlatformStep("timer_loop", platform, result.session,
                               result.timers, result.files, result.ledger,
                               FALSE, result.calls)

\* A Quantum passes: every thread is in its wait.
timer_advance ==
    /\ \A id \in PlatformIds : \A i \in 1..Len(timers.threads[id]) :
          /\ timers.threads[id][i].pc = "wait"
          /\ timers.threads[id][i].since = timers.mono
    /\ timers.mono + Quantum <= MaxUsedSeconds
    /\ timers' = [timers EXCEPT !.mono = @ + Quantum]
    /\ UNCHANGED <<sessions, hosts, backup, usage_file, slog, calls>>
    /\ UNCHANGED <<clock, process, blackout_state, web_block_state, blackout,
                   section>>
    /\ UNCHANGED <<user_blocks, log, limit, tmp, w, lockVars, fwVars,
                   usageVars, scheduler, tasks>>

\* The tray of a running process, Instagram blocked, no session yet.
InitTimer ==
    /\ hosts = BlockContent(BaseHosts, INSTAGRAM)
    /\ backup = BaseHosts
    /\ user_blocks = <<>>
    /\ log = NoCall
    /\ calls = 0
    /\ limit = MaxCalls + 1
    /\ Idle

NextTimer ==
    \/ platform_start(INSTAGRAM)
    \/ platform_pause(INSTAGRAM)
    \/ platform_stop(INSTAGRAM)
    \/ \E i \in 1..Len(timers.threads[INSTAGRAM.id]) : timer_head(INSTAGRAM, i)
    \/ \E i \in 1..Len(timers.threads[INSTAGRAM.id]) : timer_loop(INSTAGRAM, i)
    \/ timer_advance

SpecTimer == InitTimer /\ [][NextTimer]_vars

(***************************************************************************)
(* Vocabulary of the claims.                                               *)
(***************************************************************************)
Count(text, token) == Cardinality({ i \in 1..Len(text) : text[i] = token })

Lines(text) == { SplitLines(text)[i] : i \in 1..Len(SplitLines(text)) }

\* The places where the lines of platform's section stand in the text.
SectionsOf(text, platform) ==
    LET ls == SplitLines(text)
        n == Len(SectionLines(platform))
    IN { i \in 1..Len(ls) :
           i + n - 1 <= Len(ls) /\ SubSeq(ls, i, i + n - 1) = SectionLines(platform) }

\* The text ends with a blank line, platform's section and a newline.
EndsWithSection(text, platform) ==
    LET tl == <<NL, NL>> \o BuildBlockSection(platform) \o <<NL>> IN
    /\ Len(text) >= Len(tl)
    /\ SubSeq(text, Len(text) - Len(tl) + 1, Len(text)) = tl

NoMarkers(text, platform) ==
    ~InText(marker_start(platform), text) /\ ~InText(marker_end(platform), text)

\* The logged call was op on platform and its write reached the file.
Did(entry, op, platform) ==
    entry.op = op /\ entry.tag = platform.marker_tag /\ entry.wrote

\* This step is a call of op on platform whose write reaches the file, right
\* after a call of first on platform whose write reached it.
Consecutive(first, op, platform) ==
    /\ Did(log, first, platform)
    /\ Did(log', op, platform)
    /\ calls' = calls + 1

(***************************************************************************)
(* C1.                                                                     *)
(***************************************************************************)
\* C1 as stated: after two consecutive block_platform(P) calls that wrote the
\* file, the file holds exactly one start marker and exactly one end marker of
\* P, one section of P, and the second call left the file as the first made it.
C1_Original ==
    [][\A platform \in ALL_PLATFORMS :
         Consecutive("block", "block", platform) =>
            /\ hosts' = hosts
            /\ Count(hosts', marker_start(platform)) = 1
            /\ Count(hosts', marker_end(platform)) = 1
            /\ Cardinality(SectionsOf(hosts', platform)) = 1]_vars

\* C1 amended: after two consecutive block_platform(P) calls that wrote the
\* file, the file holds exactly one start marker of P, exactly one section of
\* P, which ends the file, and the second call left the file as the first made
\* it.  (End markers of P that stood outside a section are kept.)
C1_Idempotent ==
    [][\A platform \in ALL_PLATFORMS :
         Consecutive("block", "block", platform) =>
            /\ hosts' = hosts
            /\ Count(hosts', marker_start(platform)) = 1
            /\ Cardinality(SectionsOf(hosts', platform)) = 1
            /\ EndsWithSection(hosts', platform)]_vars

\* The second of two block_platform(INSTAGRAM) calls has written a file that
\* holds an end marker from the original text next to the section's.
C1_Witness ==
    /\ calls = 2
    /\ Did(log, "block", INSTAGRAM)
    /\ SectionsOf(log.before, INSTAGRAM) # {}
    /\ Count(hosts, marker_end(INSTAGRAM)) = 2

(***************************************************************************)
(* C2.                                                                     *)
(***************************************************************************)
EndsWithOneNewline(text) ==
    /\ Len(text) >= 1
    /\ text[Len(text)] = NL
    /\ Len(text) >= 2 => text[Len(text) - 1] # NL

EndMarkerMissing(text, platform) ==
    InText(marker_start(platform), text) /\ ~InText(marker_end(platform), text)

\* C3: after a call on a text in which P's end marker is missing, every line
\* of that text that is not blank and holds no start marker of P is still a
\* line of the file.
C3_NoLineLost ==
    \A platform \in ALL_PLATFORMS :
        ((Did(log, "block", platform) \/ Did(log, "unblock", platform))
            /\ EndMarkerMissing(log.before, platform)) =>
        \A line \in Lines(log.before) :
            (line # <<>> /\ ~In(marker_start(platform), line))
                => line \in Lines(hosts)

(***************************************************************************)
(* C4.                                                                     *)
(***************************************************************************)
\* The content the logged call computes from the text it read.
NewContent(entry) ==
    IF entry.op = "permanent"
    THEN PermanentContent(entry.before, GetAllPermanentDomains(user_blocks))
    ELSE LET platform == CHOOSE q \in ALL_PLATFORMS : q.marker_tag = entry.tag IN
         IF entry.op = "block" THEN BlockContent(entry.before, platform)
         ELSE UnblockContent(entry.before, platform)

\* C4: a call that returned True left the new content in the hosts file.
C4_TrueMeansWritten ==
    (log.op # "none" /\ log.ret) => hosts = NewContent(log)

(***************************************************************************)
(* C5.                                                                     *)
(***************************************************************************)
\* C5: while no step of the atomic path has raised, whether the call is under
\* way, done or killed, the target holds its previous content or the new
\* content, whole.
C5_OldOrNew ==
    (w.pc # "idle" /\ w.path = "atomic") => Target \in {w.old, w.content}

\* The process was killed with part of the new text in the temporary file,
\* and the target still holds its previous, different content.
C5_Witness ==
    /\ w.pc = "killed"
    /\ w.path = "atomic"
    /\ tmp \in ProperPrefixes(w.content) \ {<<>>}
    /\ Target = w.old
    /\ w.old # w.content

(***************************************************************************)
(* C6.                                                                     *)
(***************************************************************************)
Returned2(a, b, P, Q) ==
    /\ th[a].pc = "returned" /\ th[a].op = "block" /\ th[a].tag = P.marker_tag
    /\ th[b].pc = "returned" /\ th[b].op = "block" /\ th[b].tag = Q.marker_tag
    /\ \A t \in Threads \ {a, b} : th[t].pc = "idle"

\* C6: after concurrent block_platform(P) and block_platform(Q), P # Q, have
\* both returned True, the file holds P's section and Q's section.
C6_NoLostUpdate ==
    \A a, b \in Threads : \A P, Q \in ALL_PLATFORMS :
      (a # b /\ P # Q /\ Returned2(a, b, P, Q) /\ th[a].ret /\ th[b].ret)
        => SectionsOf(hosts, P) # {} /\ SectionsOf(hosts, Q) # {}

(***************************************************************************)
(* C7, C8.                                                                 *)
(***************************************************************************)
NoAllowlistRules == \A name \in AllowlistRules : rules[name] = 0

\* C7: from the return of a disable_allowlist_mode() whose deletes were all
\* carried out until the next call, no Allowlist rule is present.
C7_NoRulesAfterDisable ==
    (ui.pc = "idle" /\ ui.fn = "disable_allowlist_mode" /\ ui.eff) => NoAllowlistRules

\* C8: after the process has ended, at any point, the flag file exists if an
\* Allowlist rule exists.
C8_FlagWhenRules ==
    (ui.pc = "idle" /\ ui.fn = "exit") => (NoAllowlistRules \/ flag)

(***************************************************************************)
(* C9, C10.                                                                *)
(***************************************************************************)
ExactlyTwoDnsRules == rules[_DNS_RULE_NAME] = 1 /\ rules[_DOT_RULE_NAME] = 1

C10_LockPersists == (ui.pc = "idle" /\ ui.locked) => BothDnsRules(rules)

(***************************************************************************)
(* C11, C12, C14.                                                          *)
(***************************************************************************)
PlatformOfId(id) == CHOOSE platform \in ALL_PLATFORMS : platform.id = id

\* The step is a call of op on the tracker: every call writes ulog and leaves
\* the clock and the other platforms' ledgers alone.
Called(op) ==
    /\ now' = now
    /\ ulog'.op = op
    /\ \A id \in PlatformIds \ {ulog'.id} : usage_file'[id] = usage_file[id]

\* What get_remaining_seconds(platform) returns on these files at this time.
RemainingOn(files, t, id) ==
    GetRemainingSeconds(PlatformOfId(id), files[id], t, "ok")

\* The ledger text as an object, when it is one with all three keys.
WellFormed(file) ==
    /\ file # NoFile
    /\ JsonLoads(file).kind = "object"
    /\ DOMAIN JsonLoads(file).obj = {"date", "used_seconds", "sessions"}
Stored(file) == JsonLoads(file).obj

DayAt(t) == IF t.hour < RESET_HOUR THEN t.day - 1 ELSE t.day

\* C12: on a well-formed ledger dated the day before the logical day of the
\* call, get_used_seconds returns 0 and get_remaining_seconds the full quota;
\* on one dated the calendar day before, called before the reset hour, they
\* return the stored usage and the quota less it.
C12_ResetAtHour ==
    [][ \A op \in {"get_used_seconds", "get_remaining_seconds"} :
          (Called(op) /\ ulog'.io = "ok" /\ WellFormed(usage_file[ulog'.id])) =>
            LET data == Stored(usage_file[ulog'.id])
                quota == PlatformOfId(ulog'.id).daily_limit_minutes * 60
                used == IF op = "get_used_seconds" THEN ulog'.ret
                        ELSE quota - ulog'.ret
            IN /\ ~ulog'.raised
               /\ data["date"] = IsoFormat(DayAt(now) - 1) => used = 0
               /\ (data["date"] = IsoFormat(now.day - 1) /\ now.hour < RESET_HOUR) =>
                     (IF op = "get_used_seconds" THEN used = data["used_seconds"]
                      ELSE ulog'.ret = Max(0, quota - data["used_seconds"]))
               /\ usage_file' = usage_file ]_vars

\* Past the reset hour of the second day, get_used_seconds has returned 0 on
\* a ledger of the first day that holds usage.
C12_Witness ==
    /\ now = [day |-> 2, hour |-> RESET_HOUR]
    /\ ulog.op = "get_used_seconds"
    /\ ulog.io = "ok"
    /\ ~ulog.raised
    /\ ulog.ret = 0
    /\ WellFormed(usage_file[ulog.id])
    /\ Stored(usage_file[ulog.id])["date"] = IsoFormat(1)
    /\ Stored(usage_file[ulog.id])["used_seconds"] > 0

\* The ledger is there and is damaged: no JSON, no object, or an object
\* dated today that lacks used_seconds or sessions.
Damaged(file, t) ==
    /\ file # NoFile
    /\ \/ JsonLoads(file).kind # "object"
       \/ /\ "date" \in DOMAIN JsonLoads(file).obj
          /\ JsonLoads(file).obj["date"] = IsoFormat(DayAt(t))
          /\ DOMAIN JsonLoads(file).obj # {"date", "used_seconds", "sessions"}

\* C14: on a damaged ledger, with no I/O error, get_used_seconds,
\* get_remaining_seconds, is_limit_reached and add_usage return, with the
\* values of an absent ledger.
C14_DamagedAsAbsent ==
    [][ \A op \in {"get_used_seconds", "get_remaining_seconds",
                   "is_limit_reached", "add_usage"} :
          (Called(op) /\ ulog'.io = "ok" /\ Damaged(usage_file[ulog'.id], now)) =>
            /\ ~ulog'.raised
            /\ op = "get_used_seconds" => ulog'.ret = 0
            /\ op = "get_remaining_seconds" =>
                 ulog'.ret = PlatformOfId(ulog'.id).daily_limit_minutes * 60
            /\ op = "is_limit_reached" => ulog'.ret = 0
            /\ op = "add_usage" => ulog'.ret \in Deltas ]_vars

(***************************************************************************)
(* C13.                                                                    *)
(***************************************************************************)
RECURSIVE SumSeconds(_)
SumSeconds(threads) ==
    IF threads = {} THEN 0
    ELSE LET t == CHOOSE x \in threads : TRUE
         IN ut[t].seconds + SumSeconds(threads \ {t})

\* The used_seconds the ledger holds for the logical day of the run.
StoredUsed(id) ==
    IF WellFormed(usage_file[id])
       /\ Stored(usage_file[id])["date"] = GetLogicalDayStr(now)
    THEN Stored(usage_file[id])["used_seconds"] ELSE 0

AddersOf(id) ==
    { t \in UsageThreads : ut[t].op = "add_usage" /\ ut[t].id = id /\ ~ut[t].raised }

\* C13: when every thread has returned, the ledger of each platform holds the
\* sum of the seconds of the add_usage calls on it that returned.
C13_NoLostUpdate ==
    (\A t \in UsageThreads : ut[t].pc = "returned") =>
        \A id \in PlatformIds : StoredUsed(id) = SumSeconds(AddersOf(id))

(***************************************************************************)
(* C15 .. C18: the state files a starting process finds.                   *)
(***************************************************************************)
\* This step is load_persisted_blackout() finding a state file.
BlackoutLoaded ==
    /\ "blackout" \notin process
    /\ "blackout" \in process'
    /\ blackout_state # NoFile

\* The seconds from the load to the end time the file holds.
RemainingAtLoad(file) == ReadState(file).end_time - clock

\* C15: a blackout state file whose end time is more than 9 and at most 10
\* minutes after the load is resumed with more than 9 and at most 10 minutes,
\* and with the locked flag of the file.
C15_ResumesRemaining ==
    [][ ( /\ BlackoutLoaded
          /\ ~ReadState(blackout_state).raised
          /\ RemainingAtLoad(blackout_state) > 9 * 60
          /\ RemainingAtLoad(blackout_state) <= 10 * 60 ) =>
            /\ slog'.ret # None
            /\ slog'.ret[1] * 60 > 9 * 60
            /\ slog'.ret[1] * 60 <= 10 * 60
            /\ slog'.ret[2] = ReadState(blackout_state).locked ]_vars

\* This step is WebBlockSection._restore_session() finding a state file.
SectionRestored ==
    /\ "section" \notin process
    /\ "section" \in process'
    /\ web_block_state # NoFile

\* The platforms a web-block state file records.
Recorded(file) ==
    { PlatformOf(id) :
        id \in { ReadState(file).platform_ids[i] :
                   i \in 1..Len(ReadState(file).platform_ids) } \cap PlatformIds }

\* The hosts file holds nothing of platform's section.
Unblock(text, platform) == SectionsOf(text, platform) = {} /\ NoMarkers(text, platform)

\* C16: a state file whose end time is in the past when the process starts
\* is not resumed.  The blackout loader returns None and deletes the file; the
\* web-block restore unblocks every platform the file records, deletes the
\* file and leaves no session active.
C16_ExpiredNotResumed ==
    [][ /\ ( /\ BlackoutLoaded
             /\ ~ReadState(blackout_state).raised
             /\ RemainingAtLoad(blackout_state) < 0 ) =>
               /\ slog'.ret = None
               /\ blackout_state' = NoFile
               /\ ~blackout'.is_active
        /\ ( /\ SectionRestored
             /\ ~ReadState(web_block_state).raised
             /\ RemainingAtLoad(web_block_state) < 0 ) =>
               /\ \A platform \in Recorded(web_block_state) :
                     Unblock(hosts', platform)
               /\ web_block_state' = NoFile
               /\ ~section'.session_active ]_vars

\* C17: for a blackout and for a web-block session alike, a state file whose
\* remaining time at the load is above 0 and at most 60 seconds is taken for
\* expired: nothing is resumed, the platforms of the web-block file are
\* unblocked and the file is deleted.
C17_LastMinuteExpired ==
    [][ /\ ( /\ BlackoutLoaded
             /\ ~ReadState(blackout_state).raised
             /\ RemainingAtLoad(blackout_state) > 0
             /\ RemainingAtLoad(blackout_state) <= 60 ) =>
               /\ slog'.ret = None
               /\ blackout_state' = NoFile
        /\ ( /\ SectionRestored
             /\ ~ReadState(web_block_state).raised
             /\ Recorded(web_block_state) # {}
             /\ RemainingAtLoad(web_block_state) > 0
             /\ RemainingAtLoad(web_block_state) <= 60 ) =>
               /\ ~section'.session_active
               /\ \A platform \in Recorded(web_block_state) :
                     Unblock(hosts', platform)
               /\ web_block_state' = NoFile ]_vars

\* The state file is no JSON, no JSON object, has no end_iso, or its end_iso
\* is no timestamp.
Malformed(file) == file \in MalformedStates

\* No start of the process finds a session in the file, now or later.
NeverResumed(blackoutFile, webBlockFile) ==
    \A t \in Instants :
        /\ LoadPersistedBlackout(blackoutFile, t).ret = None
        /\ ~RestoreSession(webBlockFile, HostsFiles, t, <<>>).section.session_active

LockedBlackout(bo) == bo.is_active /\ bo.is_locked

\* C19: while the process runs, a blackout in Lock Mode stays as it is, with
\* its state file: a stop() that is not forced changes neither is_active,
\* is_locked, the end time, the overlays nor the file, and the one step that
\* ends the blackout is the timer's at or after the end time.
C19_LockedUntilExpiry ==
    [][ (LockedBlackout(blackout) /\ process' # {}) =>
          \/ /\ blackout' = blackout
             /\ blackout_state' = blackout_state
          \/ /\ slog'.op = "update_timer"
             /\ clock >= blackout.end_time
             /\ blackout' = NoBlackout ]_vars

\* A stop() has just been denied before the end time of a blackout in Lock
\* Mode whose state file is on disk.
C19_Witness ==
    /\ LockedBlackout(blackout)
    /\ slog.op = "stop"
    /\ clock < blackout.end_time
    /\ blackout.overlays > 0
    /\ blackout_state # NoFile

\* The web-block session is locked and its end time is still ahead.
LockedSession(s, t) == s.session_active /\ s.session_locked /\ t < s.session_end

\* Every platform of the session has its section in the hosts file.
SessionBlocked(s, text) ==
    \A i \in 1..Len(s.blocked_platforms) :
        SectionsOf(text, PlatformOf(s.blocked_platforms[i])) # {}

\* C20: while a locked web-block session is active before its end time, its
\* platforms keep their block sections, whatever the user does with the
\* panel and the tray and whether the process crashes and restarts or not.
C20_LockedKeepsSections ==
    [][ ( /\ LockedSession(section, clock)
          /\ SessionBlocked(section, hosts)
          /\ LockedSession(section', clock') ) =>
            SessionBlocked(section', hosts') ]_vars

(***************************************************************************)
(* C21.                                                                    *)
(***************************************************************************)
\* The text holds a redirect line for every merged permanent domain.
RedirectsAll(text) ==
    LET all_domains == GetAllPermanentDomains(user_blocks) IN
    \A i \in 1..Len(all_domains) : <<Redirect(all_domains[i])>> \in Lines(text)

\* The logged call was a verify_permanent_blocks that read a text without the
\* PERMANENT start marker and returned True.
VerifyReapplied(entry) ==
    entry.op = "verify" /\ entry.ret /\ ~VerifyPresent(entry.before)

\* C21: when verify_permanent_blocks finds no PERMANENT start marker and
\* returns True, the file holds one PERMANENT section (one start marker, one
\* end marker) with a redirect line for every merged permanent domain.
C21_VerifyRestores ==
    VerifyReapplied(log) =>
        /\ Count(hosts, MarkerStart(PERMANENT_BLOCK_TAG)) = 1
        /\ Count(hosts, MarkerEnd(PERMANENT_BLOCK_TAG)) = 1
        /\ RedirectsAll(hosts)

(***************************************************************************)
(* C23.                                                                    *)
(***************************************************************************)
\* The lines of the text that stand outside every complete PERMANENT section
\* (a start marker line with an end marker line after it), are not blank and
\* hold no PERMANENT marker.
OutsideCompletePermanent(text) ==
    LET ls == SplitLines(text)
        starts == { i \in 1..Len(ls) : In(MarkerStart(PERMANENT_BLOCK_TAG), ls[i]) }
        ends == { i \in 1..Len(ls) : In(MarkerEnd(PERMANENT_BLOCK_TAG), ls[i]) }
    IN { ls[i] : i \in { j \in 1..Len(ls) :
                           /\ j \notin starts \cup ends
                           /\ ls[j] # <<>>
                           /\ ~\E s \in starts, e \in ends : s < j /\ j < e } }

\* C23: after a block_permanent_domains whose write reached the file, every
\* line that stood outside a complete PERMANENT section is still a line of
\* the file, also when the PERMANENT end marker was missing.
C23_PermanentKeepsLines ==
    (log.op = "permanent" /\ log.wrote) =>
        \A line \in OutsideCompletePermanent(log.before) : line \in Lines(hosts)

(***************************************************************************)
(* C25.                                                                    *)
(***************************************************************************)
\* C25: when verify_permanent_blocks has returned True, the file holds the
\* PERMANENT start marker, a redirect line for every merged permanent domain
\* and the PERMANENT end marker.
C25_TrueMeansPresent ==
    (log.op = "verify" /\ log.ret) =>
        /\ InText(MarkerStart(PERMANENT_BLOCK_TAG), hosts)
        /\ RedirectsAll(hosts)
        /\ InText(MarkerEnd(PERMANENT_BLOCK_TAG), hosts)

(***************************************************************************)
(* C22.                                                                    *)
(***************************************************************************)
Range(s) == { s[i] : i \in 1..Len(s) }

\* The place of the first occurrence of d in the list.
FirstIndex(list, d) == CHOOSE i \in 1..Len(list) :
    list[i] = d /\ \A j \in 1..(i - 1) : list[j] # d

\* C22: the merged list holds no domain twice, holds every built-in domain
\* and every domain of a stored entry, keeps the order of the first
\* occurrences in built-ins followed by entries, and so has every built-in
\* domain before every user-only one.
C22_MergedDomains ==
    LET source == PERMANENT_BLOCK_DOMAINS \o Flatten(user_blocks)
        merged == GetAllPermanentDomains(user_blocks)
    IN /\ \A i, j \in 1..Len(merged) : i # j => merged[i] # merged[j]
       /\ Range(merged) = Range(source)
       /\ \A i, j \in 1..Len(merged) :
            i < j => FirstIndex(source, merged[i]) < FirstIndex(source, merged[j])
       /\ \A i, j \in 1..Len(merged) :
            (merged[i] \in Range(PERMANENT_BLOCK_DOMAINS)
                /\ merged[j] \notin Range(PERMANENT_BLOCK_DOMAINS)) => i < j

\* The section was written from entries that repeat a domain, repeat a
\* built-in one and add a user-only one.
C22_Witness ==
    /\ log.op = "permanent" /\ log.wrote
    /\ Len(user_blocks) = 2
    /\ \E i \in 1..2 : user_blocks[i].domains = <<"x.com", "x.com">>
    /\ \E i \in 1..2 : user_blocks[i].domains = <<"instagram.com", "x.com">>
    /\ SubSeq(hosts, Len(hosts) - Len(JoinLines(PermanentSectionLines(
           <<"instagram.com", "www.instagram.com", "x.com">>))), Len(hosts) - 1)
         = JoinLines(PermanentSectionLines(<<"instagram.com", "www.instagram.com", "x.com">>))

(***************************************************************************)
(* C24.                                                                    *)
(***************************************************************************)
ManagedTags ==
    { platform.marker_tag : platform \in ALL_PLATFORMS } \cup {PERMANENT_BLOCK_TAG}

HoldsStart(line) == \E tag \in ManagedTags : In(MarkerStart(tag), line)
HoldsEnd(line) == \E tag \in ManagedTags : In(MarkerEnd(tag), line)

RECURSIVE OutsideFrom(_, _)
\* The lines from lines that stand outside the managed sections, in order.
OutsideFrom(lines, inside) ==
    IF lines = <<>> THEN <<>>
    ELSE IF HoldsStart(Head(lines)) THEN OutsideFrom(Tail(lines), TRUE)
    ELSE IF inside /\ HoldsEnd(Head(lines)) THEN OutsideFrom(Tail(lines), FALSE)
    ELSE IF inside THEN OutsideFrom(Tail(lines), inside)
    ELSE <<Head(lines)>> \o OutsideFrom(Tail(lines), inside)

\* The lines of the text outside all managed sections, blank lines included.
OutsideManaged(text) == OutsideFrom(SplitLines(text), FALSE)

\* The section of tag is present: one start marker line, one end marker line
\* after it.
SectionPresent(text, tag) ==
    LET ls == SplitLines(text)
        starts == { i \in 1..Len(ls) : In(MarkerStart(tag), ls[i]) }
        ends == { i \in 1..Len(ls) : In(MarkerEnd(tag), ls[i]) }
    IN /\ Cardinality(starts) = 1
       /\ Cardinality(ends) = 1
       /\ \A s \in starts, e \in ends : s < e

\* C24: re-blocking a tag whose section is present leaves the sequence of
\* lines outside all managed sections identical, blank lines included.
C24_OutsideUnchanged ==
    (log.op \in {"block", "permanent"} /\ log.wrote
        /\ SectionPresent(log.before, log.tag)) =>
        OutsideManaged(hosts) = OutsideManaged(log.before)

(***************************************************************************)
(* C26.                                                                    *)
(***************************************************************************)
\* The step is a call of the manager whose write reached the hosts file.
Wrote == calls' = calls + 1 /\ log'.wrote

\* C26: at every write of the hosts file a backup exists; it is the copy of
\* what the file held before that write when there was none, and the backup
\* there was otherwise, so that it always equals the content the file had
\* before the manager's first write.
C26_BackupBeforeFirstWrite ==
    [][Wrote =>
        /\ backup' # NoFile
        /\ backup' = IF backup = NoFile THEN hosts ELSE backup]_vars

(***************************************************************************)
(* C27.                                                                    *)
(***************************************************************************)
\* The refresh loops that run.
RunningLoops == { t \in RefreshThreads : rt[t] # Dead }

\* A refresh thread runs a netsh command in this step.
RefreshCommand == \E t \in RefreshThreads : rt[t].pc = "apply" /\ rt'[t] # rt[t]

\* C27: at most one refresh loop is running at any time, and while the stop
\* event set by disable_allowlist_mode() stands no refresh thread modifies
\* the rule table.
C27_StoppedLoopIsQuiet ==
    /\ [](Cardinality(RunningLoops) <= 1)
    /\ [][(stop_event /\ RefreshCommand) => rules' = rules]_vars

(***************************************************************************)
(* C28.                                                                    *)
(***************************************************************************)
\* The step belongs to a call of one of fns on the main thread.
StepOf(fns) == ui' # ui /\ ui'.fn \in fns

\* The step is one of a refresh thread.
RefreshStep == ui' = ui /\ rt' # rt

SameRules(names) == \A name \in names : rules'[name] = rules[name]

\* C28: enable_allowlist_mode, disable_allowlist_mode,
\* cleanup_orphaned_allowlist and the refresh loop leave the DNS-Lock and
\* DoT-Lock rules unchanged; block_alternative_dns, unblock_alternative_dns
\* and is_dns_locked leave the Allowlist rules, the active flag, the refresh
\* thread and the flag file unchanged.
C28_Independent ==
    [][/\ (StepOf({"enable_allowlist_mode", "disable_allowlist_mode",
                   "cleanup_orphaned_allowlist"}) \/ RefreshStep)
            => SameRules(DnsRules)
       /\ StepOf({"block_alternative_dns", "unblock_alternative_dns",
                  "is_dns_locked"})
            => /\ SameRules(AllowlistRules)
               /\ UNCHANGED <<flag, allowlist_active, allowlist_thread,
                              stop_event, rt>>]_vars

\* disable_allowlist_mode() has returned, every delete carried out on
\* standing Allowlist rules, and both DNS-lock rules stand as before.
C28_Witness ==
    /\ ui.pc = "idle"
    /\ ui.fn = "disable_allowlist_mode"
    /\ ui.eff
    /\ ui.locked
    /\ NoAllowlistRules
    /\ BothDnsRules(rules)

(***************************************************************************)
(* C29.                                                                    *)
(***************************************************************************)
\* C29: when an enable_allowlist_mode() or disable_allowlist_mode() call has
\* returned and no call is in progress, the flag file exists if and only if
\* is_allowlist_active() is true.
C29_FlagIffActive ==
    (ui.pc = "idle" /\ ui.fn \in {"enable_allowlist_mode", "disable_allowlist_mode"})
        => (flag <=> allowlist_active)

(***************************************************************************)
(* C30.                                                                    *)
(***************************************************************************)
\* enable_allowlist_mode() has returned False: the add of the block-all rule
\* was reported as failed.
EnableFailed ==
    ui.pc = "idle" /\ ui.fn = "enable_allowlist_mode" /\ ~ui.ret

\* C30: when enable_allowlist_mode() has returned False, the mode is not
\* active, no refresh thread is held and no Allowlist rule exists; and the
\* flag file is written only by a call that returns True.
C30_FailedEnableLeavesNothing ==
    /\ [](EnableFailed =>
            ~allowlist_active /\ allowlist_thread = 0 /\ NoAllowlistRules)
    /\ [][(~flag /\ flag') => ui'.ret]_vars

(***************************************************************************)
(* C31.                                                                    *)
(***************************************************************************)
\* C31: a call of the usage tracker whose ledger cannot be read, or whose
\* data directory cannot be created, returns a value and does not raise.
C31_NoRaiseOnIoError ==
    (ulog.op # "none" /\ ulog.io = "oserror") => ~ulog.raised


\* The state file holds the end time and the locked flag of the blackout.
FileMirrors(file, bo) ==
    /\ file # NoFile
    /\ ~ReadState(file).raised
    /\ ReadState(file).end_time = bo.end_time
    /\ ReadState(file).locked = bo.is_locked

\* start() has brought an inactive blackout to an active one.
StartedBlackout ==
    slog'.op = "start" /\ ~blackout.is_active /\ blackout'.is_active

\* stop(), asked for or forced at expiry, has ended an active blackout.
StoppedBlackout ==
    slog'.op \in {"stop", "update_timer"} /\ blackout.is_active
        /\ ~blackout'.is_active

\* C32: the state file mirrors the blackout: a start() on an inactive
\* blackout leaves the file holding its end time and locked flag, a start()
\* on an active blackout changes neither the blackout nor the file, and an
\* accepted stop() leaves the blackout inactive and the file absent.
C32_FileMirrorsBlackout ==
    [][ /\ StartedBlackout => FileMirrors(blackout_state', blackout')
        /\ (slog'.op = "start" /\ blackout.is_active)
               => UNCHANGED <<blackout, blackout_state>>
        /\ StoppedBlackout => blackout_state' = NoFile ]_vars


\* _restore_session() has found the file of an expired session, with at
\* least one platform it knows, and has deleted it.
ExpiredFileDeleted ==
    /\ SectionRestored
    /\ ~ReadState(web_block_state).raised
    /\ Recorded(web_block_state) # {}
    /\ RemainingAtLoad(web_block_state) <= 0
    /\ web_block_state' = NoFile

\* C33: when _restore_session deletes the state file of an expired session,
\* no platform the file records has a block section in the hosts file: the
\* file is not deleted while a platform is still blocked.
C33_DeletedMeansUnblocked ==
    [][ ExpiredFileDeleted =>
          \A platform \in Recorded(web_block_state) :
              SectionsOf(hosts', platform) = {} ]_vars


(***************************************************************************)
(* C34 .. C35: the blackouts that schedules and queued tasks start.        *)
(***************************************************************************)
\* The schedules this step marks as triggered.
Marked == scheduler'.triggered_today \ scheduler.triggered_today

\* This step is the loop of _check_schedules triggering a schedule.
Triggers == scheduler.pc = "schedules" /\ scheduler'.pc = "wait" /\ Marked # {}

\* C34: a check starts at most one blackout and none while a blackout is
\* active, a schedule is triggered at most once in a calendar day, and a
\* schedule is marked as triggered only when no other blackout runs: the
\* blackout started is its own.
C34_TriggersOnceWhenFree ==
    [][ Triggers =>
          /\ Cardinality(Marked) = 1
          /\ \A id \in Marked : <<id, DateOf(clock)>> \notin scheduler.fired
          /\ ~blackout.is_active
          /\ blackout'.is_active ]_vars


\* This step is a monitor tick that triggers the tasks of tasks'.fired.
TaskTick ==
    /\ tasks'.fired # <<>>
    /\ Len(tasks'.scheduled_tasks) < Len(tasks.scheduled_tasks)

\* C35: every task a monitor tick triggers results in a blackout of its
\* duration and lock mode, the break of a Pomodoro preset after its work
\* blackout included: no task is dropped.
C35_TaskStartsBlackout ==
    [][ TaskTick =>
          \A i \in 1..Len(tasks'.fired) :
              /\ blackout'.is_active
              /\ blackout'.end_time = clock + 60 * tasks'.fired[i].duration
              /\ blackout'.is_locked = tasks'.fired[i].locked ]_vars


(***************************************************************************)
(* C36.                                                                    *)
(***************************************************************************)
\* The BlockAll rule and both allow rules are in the rule table.
AllowlistRulesStand(table) == \A name \in AllowlistRules : table[name] > 0

\* enable_allowlist_mode() has applied its rules and goes on to return True.
EnableApplied == ui.pc = "enable_apply" /\ ui'.pc = "enable_start"

\* A refresh thread ends a cycle of _apply_allowlist_rules.
CycleCompleted == \E t \in RefreshThreads : rt[t].pc = "apply" /\ rt'[t].pc = "wait"

\* C36: when enable_allowlist_mode() has applied its rules and returns True,
\* and when a refresh cycle is completed while the mode is active, the
\* BlockAll rule, the Allow-0 rule and the Allow-local rule all exist.
C36_BlockAllWithAllowRules ==
    [][ /\ EnableApplied => AllowlistRulesStand(rules')
        /\ (CycleCompleted /\ allowlist_active) => AllowlistRulesStand(rules') ]_vars


(***************************************************************************)
(* C37 .. C38: the timer threads and the daily quota.                      *)
(***************************************************************************)
\* used_seconds of the platform's ledger in the current logical day.
Used(files, platform) == GetUsedSeconds(files[platform.id], now, "ok").ret

\* This step is an iteration of a timer thread that adds usage.
Accrues(platform) ==
    /\ slog'.op = "timer_loop"
    /\ Used(usage_file', platform) > Used(usage_file, platform)

\* C37: a timer thread adds usage only while the session runs and is not
\* paused, and never more than the time that no thread has counted yet: no
\* second thread counts the same time again.
C37_CountedOnce ==
    [][ \A platform \in ALL_PLATFORMS :
          Accrues(platform) =>
            /\ sessions[platform.id].running
            /\ ~sessions[platform.id].paused
            /\ Used(usage_file', platform) - Used(usage_file, platform)
                 <= timers.mono - timers.counted[platform.id] ]_vars

\* The ledger says that the platform's quota of the day is used up.
QuotaReached(files, platform) ==
    IsLimitReached(platform, files[platform.id], now, "ok").ret = 1

\* C38: the step that brings the usage of a platform to its quota stops the
\* session and leaves the platform blocked, and from then on no step removes
\* the platform's block section or starts a timer thread for it.
C38_QuotaStaysEnforced ==
    [][ \A platform \in ALL_PLATFORMS :
          /\ (~QuotaReached(usage_file, platform)
                /\ QuotaReached(usage_file', platform)) =>
               /\ ~sessions'[platform.id].running
               /\ SectionPresent(hosts', platform.marker_tag)
          /\ QuotaReached(usage_file, platform) =>
               /\ Len(timers'.threads[platform.id])
                    <= Len(timers.threads[platform.id])
               /\ SectionPresent(hosts, platform.marker_tag)
                    => SectionPresent(hosts', platform.marker_tag) ]_vars


(***************************************************************************)
(* C39.                                                                    *)
(***************************************************************************)
\* The domains that a redirect line of the text names between the start
\* marker and a later end marker of one managed tag.
ManagedRedirects(text) ==
    LET ls == SplitLines(text) IN
    { ls[j][1].v : j \in { n \in 1..Len(ls) :
        /\ Len(ls[n]) = 1
        /\ ls[n][1].k = REDIRECT_IP
        /\ \E tag \in ManagedTags : \E i \in 1..(n - 1) : \E k \in (n + 1)..Len(ls) :
             In(MarkerStart(tag), ls[i]) /\ In(MarkerEnd(tag), ls[k]) } }

Domains(platform) == { platform.domains[i] : i \in 1..Len(platform.domains) }

\* C39: after an unblock_platform(P) that wrote the file and returned True,
\* no managed section of the hosts file redirects a domain of P, whichever
\* other sections (other platforms, PERMANENT) the file holds.
C39_UnblockedIsReachable ==
    \A platform \in ALL_PLATFORMS :
        (Did(log, "unblock", platform) /\ log.ret)
            => ManagedRedirects(hosts) \cap Domains(platform) = {}


(***************************************************************************)
(* C40.                                                                    *)
(***************************************************************************)
\* The blackout that start() sets up with the loader's result at the instant
\* of the load.
Restarted(ret) ==
    Start(NoBlackout, blackout_state, ret[1], ret[2], 1, clock, "ok").blackout

====
